---------------------------- MODULE Spec2Model ----------------------------
(***************************************************************************)
(* Model of the in-memory coordination core of helpdesk_v2:                *)
(*   - ChatSessionManager   (src/agent/chat_manager.py)                    *)
(*   - InMemoryRateLimiter  (src/api/rate_limiter.py)                      *)
(*   - InMemoryContextOffloader (src/agent/context_offloader.py)           *)
(*   - the windowed checkpointers (src/agent/checkpointer.py)              *)
(*   - the agent workflow (src/agent/graph.py, src/agent/nodes.py) and the *)
(*     chat route that drives it (src/api/routes.py)                       *)
(*   - CacheManager         (src/agent/cache_manager.py)                   *)
(*                                                                         *)
(* The server is a single asyncio event loop: code between two awaits runs *)
(* atomically, and every `await run_query(...)` is a real suspension       *)
(* (run_query hands the statement to a thread pool), so each action below  *)
(* is the code from one await to the next.                                 *)
(*                                                                         *)
(* The module holds several specifications: SpecChat (forced flush,        *)
(* end_session and appends of one conversation), SpecLedger (the token     *)
(* ledger under any sequence of appends), SpecAuto (flushes with           *)
(* force=False), SpecLife (flushes and server shutdown), SpecLoad          *)
(* (get_or_load_chat after a process start), SpecTurn, SpecTurnFair and    *)
(* SpecBudget (chat requests through the workflow, with and without the    *)
(* background save), SpecRate, SpecOneKey and SpecStats (the rate          *)
(* limiter), SpecChunk, SpecRetrieve, SpecOffload, SpecTrack and SpecTools *)
(* (the offloader), SpecWindow and SpecGraph (the checkpointers),          *)
(* SpecCache (the versioned message cache).  Each one moves the variables  *)
(* of its own subsystem and leaves the others at their initial value.      *)
(***************************************************************************)
EXTENDS Integers, Sequences, FiniteSets, TLC

(***************************************************************************)
(* Bounds of the model (not program constants).                            *)
(***************************************************************************)
MaxTurns == 2

MaxTok == 1

MaxTime == 1

MaxLedgerTurns == 4

MaxDbRows == 2

MaxSummaryWrites == 2

MaxRateTime == 2

MaxAdmits == 3

MaxOneKeyTime == 3

MaxStatsTime == 2

MaxBudgetTurns == 4

MaxPersisted == 2

MaxLoadTurns == 3

MaxMsgs == 2

MaxVersions == 3

MaxRows == 4

MaxRowSize == 3

MaxChunkSize == 3

MaxStoredRows == 4

MaxRequestLen == 2

MaxRequested == 3

MaxRetrievals == 2

MaxOffloadRows == 2

MaxOffloadLen == 1

MaxOffloadCalls == 2

MaxWindowSize == 3

MaxWindowTokens == 2

MaxMinWindow == 2

MaxCheckpointMsgs == 4

MaxRequests == 2

MaxToolLoops == 1

(***************************************************************************)
(* Program constants, scaled to clock ticks.                               *)
(***************************************************************************)
\* auto_save_interval_minutes (5 minutes in the source; 1 tick here)
auto_save_interval == 1

\* max_tokens_per_chat (100 * 8000 in the source)
max_tokens_per_chat == 2

\* the coroutines that run save_chat_to_db / end_session on the event loop
Tasks == {"task1", "task2"}

Roles == {"user", "assistant"}

\* token counts of the turns appended while flushes are explored (the
\* persistence path never reads them); the ledger is explored with 0..MaxTok
FlushTokens == {1}

VARIABLES
    \* ---- clock (datetime.utcnow / time.time) ----
    now,
    \* ---- ChatSessionManager, one chat_id ----
    cached,             \* chat_id in self.active_chats
    messages,           \* active_chats[chat_id]['messages']
    unsaved_messages,   \* self.unsaved_messages[chat_id] (the live list object)
    cumulative_tokens,  \* active_chats[chat_id]['cumulative_tokens']
    last_save,          \* active_chats[chat_id]['last_save']
    metrics_saved,      \* self.metrics_saved[chat_id]
    \* ---- coroutines running save_chat_to_db / end_session ----
    pc,                 \* where each task is suspended
    kind,               \* entry point of a running task: "save" or "end"
    unsaved,            \* local `unsaved` of save_chat_to_db (a list reference)
    alias,              \* TRUE while the local `unsaved` is the live list object
    values,             \* turns formatted into the INSERT statement
    cum,                \* local cumulative_total read at line 342
    result,             \* what the last finished save_chat_to_db call returned
    \* ---- durable store ----
    db_messages,        \* rows of table messages, in insertion order (turn ids)
    db_total_tokens,    \* chats.total_tokens
    chat_metrics_writes,\* number of executed chat_metrics upserts
    chat_row,           \* the chat has its row in table chats
    db_rows,            \* rows of table messages as a SELECT ... ORDER BY
                        \* created_at returns them: role and tokens
    \* ---- get_or_load_chat ----
    load_result,        \* what the last finished get_or_load_chat call returned
    \* ---- history variables ----
    lastAppend,         \* outcome of the last add_message_to_cache call
    overlapFlush,       \* some flush started while another was in its I/O
    overlapEnd,         \* some end_session started while another was running
    secondEnd,          \* some end_session started after the summary was saved
    started,            \* per task: clock value at which its save_chat_to_db
                        \* call with force=False passed the interval test
                        \* (-1: no such call in progress)
    autoWrites,         \* history: those clock values, for the force=False
                        \* calls whose INSERT committed
    \* ---- one /chat request running the agent graph (routes.py, graph.py) ----
    wf,                 \* the request's position in the graph and its state
    response,           \* what the last /chat request answered
    \* ---- InMemoryRateLimiter ----
    requests,           \* self.requests: (user_id, endpoint) -> [(timestamp, count)]
    rq,                 \* HTTP requests scheduled on the event loop
    info,               \* what the last check_rate_limit call returned
    admitted,           \* history: per (user_id, endpoint), the timestamps of
                        \* all requests admitted with increment=True
    user_stats,         \* what get_user_stats returned, if it is the limiter
                        \* call that ran last
    \* ---- InMemoryContextOffloader ----
    chunk_context_size, \* self.chunk_context_size
    storage,            \* self.storage: session_id -> session record
    requested,          \* history: per session, how often each chunk index
                        \* was requested by successful get_chunks calls, the
                        \* number of those calls and the list of the last one
    chunk_result,       \* what get_chunks returned, if it is the offloader
                        \* call that ran last
    off_return,         \* what get_summary, get_retrieval_stats or clear
                        \* returned, if it is the offloader call that ran last
    tc,                 \* get_context_chunks tool calls scheduled on the
                        \* event loop by the tool node
    \* ---- AdaptiveWindowedCheckpointer / WindowedCheckpointer ----
    window_size,        \* self.window_size
    max_window_tokens,  \* self.max_window_tokens
    min_window_size,    \* self.min_window_size
    checkpoint_messages,\* channel_values["messages"] held by the MemorySaver
    window_read,        \* what the last get_tuple call returned
    graph,              \* the invocation of the compiled graph on the thread:
                        \* pc, and messages = its state["messages"]
    recorded,           \* history: number of messages written to the thread
    \* ---- CacheManager ----
    cache,              \* self.cache: chat_id -> ChatSession
                        \* (active_message_map, messages -> version ids)
    cm_return           \* what the last CacheManager call returned

clockVars == <<now>>

rateVars == <<requests, rq, info, admitted, user_stats>>

offVars == <<chunk_context_size, storage, requested, chunk_result,
             off_return, tc>>

winVars == <<window_size, max_window_tokens, min_window_size,
             checkpoint_messages, window_read, graph, recorded>>

wfVars == <<wf, response>>

loadVars == <<chat_row, db_rows, load_result>>

cmVars == <<cache, cm_return>>

chatVars == <<cached, messages, unsaved_messages, cumulative_tokens, last_save,
              metrics_saved, pc, kind, unsaved, alias, values, cum, result,
              db_messages, db_total_tokens, chat_metrics_writes,
              lastAppend, overlapFlush, overlapEnd, secondEnd,
              started, autoWrites>>

vars == <<clockVars, chatVars, rateVars, offVars, winVars, wfVars, loadVars,
          cmVars>>

(***************************************************************************)
(* Helpers                                                                 *)
(***************************************************************************)
Ids(s) == { s[i].id : i \in DOMAIN s }

Elems(s) == { s[i] : i \in DOMAIN s }

Ret(o, n) == [outcome |-> o, count |-> n]

RECURSIVE SumTokens(_, _)
SumTokens(s, R) ==
    IF s = <<>> THEN 0
    ELSE (IF Head(s).role \in R THEN Head(s).tokens ELSE 0) + SumTokens(Tail(s), R)

IsSuffix(s, t) ==
    /\ Len(s) <= Len(t)
    /\ \A i \in 1..Len(s) : s[i] = t[Len(t) - Len(s) + i]

InFlushIO(t) == pc[t] \in {"insert", "update"}

(***************************************************************************)
(* Initial values of the rate limiter and of the offloader                 *)
(***************************************************************************)
\* the sessions uuid4 can name
SessionIds == {"session_1"}

Keys == {"user:a", "ip:b"}

Endpoints == {"/api/chat", "/api/other"}

Reqs == {"r1", "r2"}

IdleReq == [pc |-> "idle", key |-> "none", endpoint |-> "none"]

NoInfo == [allowed |-> TRUE, limit |-> 0, remaining |-> 0, reset |-> 0,
           retry_after |-> 0]

\* no get_user_stats call has returned yet
NoStats == [called |-> FALSE, user_id |-> "none", stats |-> <<>>]

\* InMemoryRateLimiter.__init__: no key in self.requests
InitRate ==
    /\ requests = [x \in {} |-> <<>>]
    /\ rq = [p \in Reqs |-> IdleReq]
    /\ info = NoInfo
    /\ admitted = [x \in Keys \X Endpoints |-> <<>>]
    /\ user_stats = NoStats

\* no get_chunks call has returned yet
NoResult == [status |-> "none", message |-> "none", invalid_indices |-> <<>>,
             retrieved_chunks |-> <<>>, rows_in_response |-> 0,
             total_chunks_available |-> 0, chunks_remaining |-> 0,
             remaining_chunk_indices |-> <<>>, data |-> <<>>,
             chunks_retrieved |-> 0]

\* no get_summary, get_retrieval_stats or clear call has returned yet
NoReturn == [op |-> "none", session_id |-> "none", status |-> "none"]

\* the tool calls of one assistant message
ToolCalls == {"call_1", "call_2"}

\* seen: the number of retrievals the offloader had logged when the call
\* was scheduled (history)
IdleCall == [pc |-> "idle", session_id |-> "none", chunk_indices |-> <<>>,
             seen |-> 0]

\* InMemoryContextOffloader.__init__(chunk_context_size): empty storage
InitOff(sizes) ==
    /\ chunk_context_size \in sizes
    /\ storage = [x \in {} |-> <<>>]
    /\ requested = [x \in {} |-> <<>>]
    /\ chunk_result = NoResult
    /\ off_return = NoReturn
    /\ tc = [p \in ToolCalls |-> IdleCall]

\* no get_tuple call has returned yet
NoRead == [kind |-> "none", original_count |-> 0, messages |-> <<>>]

\* AdaptiveWindowedCheckpointer.__init__(base_window_size, max_window_tokens,
\* min_window_size) over an empty MemorySaver
InitWin(sizes, budgets, floors) ==
    /\ window_size \in sizes
    /\ max_window_tokens \in budgets
    /\ min_window_size \in floors
    /\ checkpoint_messages = <<>>
    /\ window_read = NoRead
    /\ graph = [pc |-> "idle", messages |-> <<>>]
    /\ recorded = 0

InitWinIdle == InitWin({MaxWindowSize}, {MaxWindowTokens}, {MaxMinWindow})

\* no /chat request is running the graph
IdleWf == [node |-> "idle", last |-> "none", user_msg_content |-> "",
           limit_reached |-> FALSE, llm_calls |-> 0, len0 |-> 0,
           requests |-> 0, bg_scheduled |-> 0]

InitWf ==
    /\ wf = IdleWf
    /\ response = "none"

\* no CacheManager call has returned yet
NoCall == [op |-> "none", value |-> "none"]

\* CacheManager.__init__: an empty cache
InitCache ==
    /\ cache = [x \in {} |-> <<>>]
    /\ cm_return = NoCall

(***************************************************************************)
(* ChatSessionManager                                                      *)
(***************************************************************************)
\* no get_or_load_chat call has finished yet
NoLoad == [outcome |-> "none", total_tokens |-> 0, messages |-> <<>>]

InitChat ==
    /\ cached = FALSE
    /\ messages = <<>>
    /\ unsaved_messages = <<>>
    /\ cumulative_tokens = [total |-> 0, input |-> 0, output |-> 0]
    /\ last_save = 0
    /\ metrics_saved = FALSE
    /\ pc = [t \in Tasks |-> "idle"]
    /\ kind = [t \in Tasks |-> "none"]
    /\ unsaved = [t \in Tasks |-> <<>>]
    /\ alias = [t \in Tasks |-> FALSE]
    /\ values = [t \in Tasks |-> <<>>]
    /\ cum = [t \in Tasks |-> 0]
    /\ result = Ret("none", 0)
    /\ db_messages = <<>>
    /\ db_total_tokens = 0
    /\ chat_metrics_writes = 0
    /\ lastAppend = "none"
    /\ overlapFlush = FALSE
    /\ overlapEnd = FALSE
    /\ secondEnd = FALSE
    /\ started = [t \in Tasks |-> -1]
    /\ autoWrites = <<>>
    /\ chat_row = FALSE
    /\ db_rows = <<>>
    /\ load_result = NoLoad

\* create_new_chat: the INSERT into chats succeeded and the record is cached.
create_new_chat ==
    /\ ~cached
    /\ cached' = TRUE
    /\ messages' = <<>>
    /\ cumulative_tokens' = [total |-> 0, input |-> 0, output |-> 0]
    /\ last_save' = now
    /\ metrics_saved' = FALSE
    /\ chat_row' = TRUE
    /\ UNCHANGED <<cmVars, db_rows, load_result, rateVars, offVars, winVars, wfVars, now, unsaved_messages, pc, kind, unsaved, alias, values, cum,
                   result, db_messages, db_total_tokens, chat_metrics_writes,
                   lastAppend, overlapFlush, overlapEnd, secondEnd,
                   started, autoWrites>>

\* lines 228-232: the ledger update of add_message_to_cache
UpdateTokens_M(ct, role, tokens) ==
    [total  |-> ct.total + tokens,
     input  |-> ct.input + tokens,
     output |-> IF role = "assistant" THEN ct.output + tokens ELSE ct.output]

UpdateTokens(ct, role, tokens) ==
    [total  |-> ct.total + tokens,
     input  |-> IF role = "user" THEN ct.input + tokens ELSE ct.input,
     output |-> IF role = "assistant" THEN ct.output + tokens ELSE ct.output]

\* lines 210-252 of add_message_to_cache on the in-memory record c =
\* (cached, messages, unsaved_messages, unsaved, cumulative_tokens): an
\* unknown chat_id logs a warning and returns; otherwise the turn goes to the
\* log and to the unsaved list and the ledger is updated
AppendTurn(c, role, tokens) ==
    IF ~c.cached THEN c
    ELSE LET message == [id |-> Len(c.messages) + 1, role |-> role,
                         tokens |-> tokens]
         IN  [cached |-> TRUE,
              messages |-> Append(c.messages, message),
              unsaved_messages |-> Append(c.unsaved_messages, message),
              \* a suspended flush whose local `unsaved` is the live list
              \* object sees the append
              unsaved |-> [t \in Tasks |->
                             IF alias[t] THEN Append(c.unsaved[t], message)
                             ELSE c.unsaved[t]],
              cumulative_tokens |-> UpdateTokens(c.cumulative_tokens, role, tokens)]

\* the in-memory record of the conversation in the current state
ChatRecord ==
    [cached |-> cached, messages |-> messages,
     unsaved_messages |-> unsaved_messages, unsaved |-> unsaved,
     cumulative_tokens |-> cumulative_tokens]

\* add_message_to_cache(chat_id, role, content, tokens); lastAppend is
\* "cached" when the turn was appended and "not_cached" when the call
\* returned None after the warning of line 211 (no exception is raised)
add_message_to_cache(role, tokens) ==
    /\ LET c == AppendTurn(ChatRecord, role, tokens)
       IN  /\ lastAppend' = IF cached THEN "cached" ELSE "not_cached"
           /\ messages' = c.messages
           /\ unsaved_messages' = c.unsaved_messages
           /\ unsaved' = c.unsaved
           /\ cumulative_tokens' = c.cumulative_tokens
    /\ UNCHANGED <<cmVars, loadVars, rateVars, offVars, winVars, wfVars, now, cached, last_save, metrics_saved, pc, kind, alias,
                   values, cum, result, db_messages, db_total_tokens,
                   chat_metrics_writes, overlapFlush, overlapEnd, secondEnd,
                   started, autoWrites>>

\* lines 309-323: the early returns of save_chat_to_db
SaveSkips(force) ==
    \/ ~cached
    \/ unsaved_messages = <<>>
    \/ (~force /\ now - last_save < auto_save_interval)

\* lines 312, 325-339: bind the local `unsaved`, build the INSERT from it and
\* suspend on run_query
SuspendOnInsert(t, k) ==
    /\ Len(db_messages) < MaxDbRows
    /\ pc' = [pc EXCEPT ![t] = "insert"]
    /\ kind' = [kind EXCEPT ![t] = k]
    /\ unsaved' = [unsaved EXCEPT ![t] = unsaved_messages]
    /\ alias' = [alias EXCEPT ![t] = TRUE]
    /\ values' = [values EXCEPT ![t] = unsaved_messages]
    /\ overlapFlush' = (overlapFlush \/ \E w \in Tasks \ {t} : InFlushIO(w))

\* save_chat_to_db(chat_id, force) up to its first await, on the state of
\* the session manager
SaveCall(t, force) ==
    /\ pc[t] = "idle"
    /\ IF SaveSkips(force)
       THEN /\ result' = Ret("ok", 0)
            /\ UNCHANGED <<pc, kind, unsaved, alias, values, overlapFlush,
                           started>>
       ELSE /\ SuspendOnInsert(t, "save")
            /\ started' = [started EXCEPT ![t] = IF force THEN -1 ELSE now]
            /\ UNCHANGED result
    /\ UNCHANGED <<cmVars, loadVars, rateVars, offVars, winVars, now, cached, messages, unsaved_messages, cumulative_tokens,
                   last_save, metrics_saved, cum, db_messages, db_total_tokens,
                   chat_metrics_writes, lastAppend, overlapEnd, secondEnd,
                   autoWrites>>

\* save_chat_to_db(chat_id, force) called on the manager
save_chat_to_db(t, force) ==
    /\ SaveCall(t, force)
    /\ UNCHANGED wfVars

\* line 380: the at-most-once guard of save_session_metrics
metrics_already_saved_M == FALSE

metrics_already_saved == metrics_saved

\* save_session_metrics up to its await (lines 375-468): where the task goes
MetricsPc == IF metrics_already_saved THEN "idle" ELSE "metrics"

\* the task's locals once its call has returned
Finish(t, nextpc) ==
    /\ pc' = [pc EXCEPT ![t] = nextpc]
    /\ kind' = [kind EXCEPT ![t] = IF nextpc = "idle" THEN "none" ELSE kind[t]]
    /\ unsaved' = [unsaved EXCEPT ![t] = <<>>]
    /\ values' = [values EXCEPT ![t] = <<>>]
    /\ cum' = [cum EXCEPT ![t] = 0]
    /\ started' = [started EXCEPT ![t] = -1]

\* end_session(chat_id) up to its first await
end_session(t) ==
    /\ pc[t] = "idle"
    /\ chat_metrics_writes < MaxSummaryWrites
    /\ overlapEnd' = (overlapEnd \/ \E u \in Tasks \ {t} : kind[u] = "end")
    /\ IF ~cached
       THEN UNCHANGED <<pc, kind, unsaved, alias, values, result,
                        overlapFlush, secondEnd>>
       ELSE /\ secondEnd' = (secondEnd \/ metrics_saved)
            /\ IF SaveSkips(TRUE)
               THEN \* the forced save returns 0; save_session_metrics runs on
                    /\ result' = Ret("ok", 0)
                    /\ pc' = [pc EXCEPT ![t] = MetricsPc]
                    /\ kind' = [kind EXCEPT ![t] =
                                  IF MetricsPc = "idle" THEN "none" ELSE "end"]
                    /\ UNCHANGED <<unsaved, alias, values, overlapFlush>>
               ELSE /\ SuspendOnInsert(t, "end")
                    /\ UNCHANGED result
    /\ UNCHANGED <<cmVars, loadVars, rateVars, offVars, winVars, wfVars, now, cached, messages, unsaved_messages, cumulative_tokens,
                   last_save, metrics_saved, cum, db_messages, db_total_tokens,
                   chat_metrics_writes, lastAppend, started, autoWrites>>

\* line 339 returns: the batch INSERT committed; line 342 reads the total;
\* suspend on the UPDATE (line 350)
InsertOk(t) ==
    /\ pc[t] = "insert"
    /\ db_messages' = db_messages \o [i \in 1..Len(values[t]) |-> values[t][i].id]
    /\ db_rows' = db_rows \o [i \in 1..Len(values[t]) |->
                              [role |-> values[t][i].role,
                               tokens |-> values[t][i].tokens]]
    /\ cum' = [cum EXCEPT ![t] = cumulative_tokens.total]
    /\ pc' = [pc EXCEPT ![t] = "update"]
    /\ autoWrites' = IF started[t] >= 0 THEN Append(autoWrites, started[t])
                     ELSE autoWrites
    /\ UNCHANGED <<cmVars, chat_row, load_result, rateVars, offVars, winVars, wfVars, now, cached, messages, unsaved_messages, cumulative_tokens,
                   last_save, metrics_saved, kind, unsaved, alias, values,
                   result, db_total_tokens, chat_metrics_writes, lastAppend,
                   overlapFlush, overlapEnd, secondEnd, started>>

\* lines 364-366: a run_query raised; the handler logs and re-raises, and
\* nothing else is touched.  background_save_chat swallows the exception,
\* end_session lets it through (save_session_metrics is not reached).
SaveRaises(t) ==
    /\ Finish(t, "idle")
    /\ result' = Ret("error", 0)
    /\ alias' = [alias EXCEPT ![t] = FALSE]
    /\ UNCHANGED <<cmVars, loadVars, rateVars, offVars, winVars, wfVars, now, cached, messages, unsaved_messages, cumulative_tokens,
                   last_save, metrics_saved, db_messages, db_total_tokens,
                   chat_metrics_writes, lastAppend, overlapFlush, overlapEnd,
                   secondEnd, autoWrites>>

InsertFail(t) ==
    /\ pc[t] = "insert"
    /\ SaveRaises(t)

UpdateFail(t) ==
    /\ pc[t] = "update"
    /\ SaveRaises(t)

\* line 353: saved_count = len(unsaved), on the local list reference
saved_count_M(t) == 0

saved_count(t) == Len(unsaved[t])

\* lines 350-362: the UPDATE committed; the unsaved list is rebound to a new
\* empty list (line 354), last_save is stamped and the count returned.
\* For end_session the call continues into save_session_metrics.
UpdateOk(t) ==
    /\ pc[t] = "update"
    /\ db_total_tokens' = cum[t]
    /\ result' = Ret("ok", saved_count(t))
    /\ unsaved_messages' = <<>>
    \* every local reference now names the old list object
    /\ alias' = [u \in Tasks |-> FALSE]
    /\ last_save' = now
    /\ Finish(t, IF kind[t] = "end" THEN MetricsPc ELSE "idle")
    /\ UNCHANGED <<cmVars, loadVars, rateVars, offVars, winVars, wfVars, now, cached, messages, cumulative_tokens, metrics_saved,
                   db_messages, chat_metrics_writes, lastAppend, overlapFlush,
                   overlapEnd, secondEnd, autoWrites>>

\* lines 468-477: the metrics upsert committed
MetricsOk(t) ==
    /\ pc[t] = "metrics"
    /\ chat_metrics_writes' = chat_metrics_writes + 1
    /\ metrics_saved' = TRUE
    /\ pc' = [pc EXCEPT ![t] = "idle"]
    /\ kind' = [kind EXCEPT ![t] = "none"]
    /\ UNCHANGED <<cmVars, loadVars, rateVars, offVars, winVars, wfVars, now, cached, messages, unsaved_messages, cumulative_tokens,
                   last_save, unsaved, alias, values, cum, result,
                   db_messages, db_total_tokens, lastAppend, overlapFlush,
                   overlapEnd, secondEnd, started, autoWrites>>

\* lines 478-479: the metrics upsert raised; the error is logged and dropped
MetricsFail(t) ==
    /\ pc[t] = "metrics"
    /\ pc' = [pc EXCEPT ![t] = "idle"]
    /\ kind' = [kind EXCEPT ![t] = "none"]
    /\ UNCHANGED <<cmVars, loadVars, rateVars, offVars, winVars, wfVars, now, cached, messages, unsaved_messages, cumulative_tokens,
                   last_save, metrics_saved, unsaved, alias, values, cum,
                   result, db_messages, db_total_tokens, chat_metrics_writes,
                   lastAppend, overlapFlush, overlapEnd, secondEnd,
                   started, autoWrites>>

\* the clock advances
Tick(bound) ==
    /\ now < bound
    /\ now' = now + 1

ChatTick ==
    /\ Tick(MaxTime)
    /\ UNCHANGED <<cmVars, loadVars, chatVars, rateVars, offVars, winVars, wfVars>>

\* call_llm (nodes.py) appends the user turn, then the assistant turn
NextRole == IF Len(messages) % 2 = 0 THEN "user" ELSE "assistant"

InitSpecChat ==
    /\ now = 0
    /\ InitChat
    /\ InitRate
    /\ InitOff({MaxChunkSize})
    /\ InitWinIdle
    /\ InitWf
    /\ InitCache

NextChat ==
    \/ create_new_chat
    \/ \E tokens \in FlushTokens :
          Len(messages) < MaxTurns /\ add_message_to_cache(NextRole, tokens)
    \* background_save_chat: the program's only caller passes force=True
    \/ \E t \in Tasks : save_chat_to_db(t, TRUE)
    \/ \E t \in Tasks : end_session(t)
    \/ \E t \in Tasks : InsertOk(t)
    \/ \E t \in Tasks : InsertFail(t)
    \/ \E t \in Tasks : UpdateOk(t)
    \/ \E t \in Tasks : UpdateFail(t)
    \/ \E t \in Tasks : MetricsOk(t)
    \/ \E t \in Tasks : MetricsFail(t)
    \/ ChatTick

SpecChat == InitSpecChat /\ [][NextChat]_vars

\* the token ledger alone: a conversation created empty and any sequence of
\* add_message_to_cache calls
NextLedger ==
    \/ create_new_chat
    \/ \E role \in Roles, tokens \in 0..MaxTok :
          Len(messages) < MaxLedgerTurns /\ add_message_to_cache(role, tokens)

SpecLedger == InitSpecChat /\ [][NextLedger]_vars

(***************************************************************************)
(* Claims on ChatSessionManager                                            *)
(***************************************************************************)

\* C1: for the cached conversation the unsaved queue is a suffix of the
\* message log, and every turn accepted by add_message_to_cache is still in
\* the unsaved queue or is in the store through an INSERT that succeeded.
C1_NoUnsavedTurnDropped ==
    cached =>
        /\ IsSuffix(unsaved_messages, messages)
        /\ \A m \in Elems(messages) :
              m \in Elems(unsaved_messages) \/ m.id \in Elems(db_messages)

\* C2: when a flush completes, every turn that was appended while it was
\* suspended (queued, but not in the batch it wrote) is still in the unsaved
\* queue, and the count it returns is the number of turns it wrote.
C2_AppendDuringFlush ==
    [][\A t \in Tasks :
          UpdateOk(t) =>
             /\ \A m \in Elems(unsaved_messages) :
                   m \in Elems(values[t]) \/ m \in Elems(unsaved_messages')
             /\ result'.count = Len(values[t])]_vars

\* C5: a flush whose INSERT or UPDATE fails returns the error and leaves the
\* unsaved queue as it is; a flush that completes while the queue is still
\* exactly the batch it started with (nothing appended or flushed meanwhile)
\* leaves the queue empty and returns the size of that batch.
C5_FlushAllOrNothing ==
    [][\A t \in Tasks :
          /\ (InsertFail(t) \/ UpdateFail(t)) =>
                /\ result'.outcome = "error"
                /\ unsaved_messages' = unsaved_messages
          /\ (UpdateOk(t) /\ unsaved_messages = values[t]) =>
                /\ unsaved_messages' = <<>>
                /\ result' = Ret("ok", Len(values[t]))]_vars

\* the UPDATE of a flush failed after its INSERT had committed
C5_Witness_FailedMidBatch ==
    /\ result.outcome = "error"
    /\ Len(unsaved_messages) = 2
    /\ Elems(db_messages) = {1, 2}
    /\ ~overlapFlush

\* C6: with flushes retried one after the other (never overlapping), no turn
\* is inserted into table messages more than once.
C6_NoDuplicateInsert ==
    ~overlapFlush =>
        \A i, j \in DOMAIN db_messages :
            i # j => db_messages[i] # db_messages[j]

\* C7: two flushes of the conversation are never both in their persistence
\* I/O holding the same unsaved turn in their INSERT batches.
C7_OneFlushInIO ==
    \A t, u \in Tasks :
        (t # u /\ InFlushIO(t) /\ InFlushIO(u)) =>
            Ids(values[t]) \cap Ids(values[u]) = {}

\* C8: the ledger total is the sum of the tokens of all appended turns, the
\* input total the sum over user turns, the output total the sum over
\* assistant turns, and input + output = total.
C8_TokenConservation ==
    cached =>
        /\ cumulative_tokens.total = SumTokens(messages, Roles)
        /\ cumulative_tokens.input = SumTokens(messages, {"user"})
        /\ cumulative_tokens.output = SumTokens(messages, {"assistant"})
        /\ cumulative_tokens.input + cumulative_tokens.output
              = cumulative_tokens.total

\* a user turn and an assistant turn, both with tokens, have been appended
C8_Witness_BothRoles ==
    /\ cached
    /\ \E i, j \in DOMAIN messages :
          /\ messages[i].role = "user" /\ messages[i].tokens > 0
          /\ messages[j].role = "assistant" /\ messages[j].tokens > 0

\* C9: with end_session calls made one after the other, at most one summary
\* upsert is ever executed, and once it has been executed (metrics_saved) a
\* later end_session never reaches the summary write: the count stays 1.
C9_EndSessionOnce ==
    ~overlapEnd =>
        /\ chat_metrics_writes <= 1
        /\ metrics_saved =>
              /\ chat_metrics_writes = 1
              /\ \A t \in Tasks : pc[t] # "metrics"

\* a second end_session ran to completion after the summary had been saved
C9_Witness_SecondEnd ==
    /\ secondEnd
    /\ ~overlapEnd
    /\ chat_metrics_writes = 1
    /\ \A t \in Tasks : pc[t] = "idle"

(***************************************************************************)
(* InMemoryRateLimiter.  check_rate_limit has no await: from the lookup of *)
(* the limit to the append it is one step of the event loop.               *)
(***************************************************************************)
\* self.limits, scaled: (limit, window) with the window in clock ticks.
\* Source: default (100, 60), "/api/chat" (20, 60).
limits == [e \in {"default", "/api/chat"} |->
              IF e = "/api/chat" THEN <<2, 2>> ELSE <<3, 2>>]

\* self.limits.get(endpoint, self.limits["default"])
LimitFor(endpoint) ==
    IF endpoint \in DOMAIN limits THEN limits[endpoint] ELSE limits["default"]

RECURSIVE SumCounts(_)
SumCounts(l) == IF l = <<>> THEN 0 ELSE Head(l)[2] + SumCounts(Tail(l))

\* lines 40-44: the entries _cleanup_old_requests keeps
KeepRecent_M(l, t, window_seconds) ==
    SelectSeq(l, LAMBDA e : e[1] \div window_seconds = t \div window_seconds)

KeepRecent(l, t, window_seconds) ==
    SelectSeq(l, LAMBDA e : e[1] > t - window_seconds)

\* _cleanup_old_requests(user_id, endpoint, window_seconds)
_cleanup_old_requests(reqs, user_id, endpoint, window_seconds, t) ==
    IF <<user_id, endpoint>> \notin DOMAIN reqs THEN reqs
    ELSE [reqs EXCEPT ![<<user_id, endpoint>>] = KeepRecent(@, t, window_seconds)]

\* _get_request_count(user_id, endpoint)
_get_request_count(reqs, user_id, endpoint) ==
    IF <<user_id, endpoint>> \notin DOMAIN reqs THEN 0
    ELSE SumCounts(reqs[<<user_id, endpoint>>])

\* line 86: the limit test
OverLimit_M(current_count, limit_count) == current_count > limit_count

OverLimit(current_count, limit_count) == current_count >= limit_count

\* line 101: retry_after = int(window_seconds - (time.time() - oldest_ts)) + 1
RetryAfter_M(window_seconds, t, oldest_ts) == (t - oldest_ts) + 1

RetryAfter(window_seconds, t, oldest_ts) == (window_seconds - (t - oldest_ts)) + 1

\* lines 99-103: retry_after from the oldest entry of the window, or the
\* whole window when the list is empty
RetryHint_M(window_seconds, t, lst) ==
    IF lst # <<>> THEN t - lst[1][1] ELSE window_seconds

RetryHint(window_seconds, t, lst) ==
    IF lst # <<>> THEN RetryAfter(window_seconds, t, lst[1][1])
    ELSE window_seconds

\* line 115: self.requests[user_id][endpoint].append((time.time(), 1))
Admit_M(lst, t) == Append(Append(lst, <<t, 1>>), <<t, 1>>)

Admit(lst, t) == Append(lst, <<t, 1>>)

\* self.requests[user_id][endpoint] on the defaultdict: creates the list
Touch(reqs, user_id, endpoint) ==
    [x \in DOMAIN reqs \cup {<<user_id, endpoint>>} |->
        IF x \in DOMAIN reqs THEN reqs[x] ELSE <<>>]

\* the outcome of check_rate_limit(user_id, endpoint, increment) at time t:
\* the new self.requests and the returned info
CheckResult(reqs, user_id, endpoint, increment, t) ==
    LET limit_count == LimitFor(endpoint)[1]
        window_seconds == LimitFor(endpoint)[2]
        cleaned == _cleanup_old_requests(reqs, user_id, endpoint, window_seconds, t)
        current_count == _get_request_count(cleaned, user_id, endpoint)
        touched == Touch(cleaned, user_id, endpoint)
        lst == touched[<<user_id, endpoint>>]
        retry_after == RetryHint(window_seconds, t, lst)
    IN  IF OverLimit(current_count, limit_count)
        THEN [requests |-> touched,
              info |-> [allowed |-> FALSE, limit |-> limit_count,
                        remaining |-> 0, reset |-> t + retry_after,
                        retry_after |-> retry_after]]
        ELSE [requests |-> IF increment
                           THEN [touched EXCEPT ![<<user_id, endpoint>>] =
                                    Admit(@, t)]
                           ELSE cleaned,
              info |-> [allowed |-> TRUE, limit |-> limit_count,
                        remaining |-> limit_count - current_count
                                       - (IF increment THEN 1 ELSE 0),
                        reset |-> t + window_seconds,
                        retry_after |-> 0]]

RECURSIVE SumLen(_, _)
SumLen(f, S) ==
    IF S = {} THEN 0
    ELSE LET x == CHOOSE y \in S : TRUE IN Len(f[x]) + SumLen(f, S \ {x})

\* number of admissions recorded so far
TotalAdmits == SumLen(admitted, DOMAIN admitted)

\* a request on (key, endpoint) is scheduled on the event loop
\* (main.py, request_tracking_and_rate_limiting_middleware)
RqArrive(p, k, e) ==
    /\ rq[p].pc = "idle"
    /\ TotalAdmits < MaxAdmits
    /\ rq' = [rq EXCEPT ![p] = [pc |-> "pending", key |-> k, endpoint |-> e]]
    /\ UNCHANGED <<cmVars, loadVars, now, requests, info, admitted, user_stats, chatVars, offVars,
                   winVars, wfVars>>

\* check_rate_limit(user_id, endpoint, increment) for the request p
check_rate_limit(p, increment) ==
    /\ rq[p].pc = "pending"
    /\ LET r == CheckResult(requests, rq[p].key, rq[p].endpoint, increment, now)
       IN  /\ requests' = r.requests
           /\ info' = r.info
           /\ admitted' = IF r.info.allowed /\ increment
                          THEN [admitted EXCEPT ![<<rq[p].key, rq[p].endpoint>>] =
                                   Append(@, now)]
                          ELSE admitted
    /\ rq' = [rq EXCEPT ![p] = IdleReq]
    /\ user_stats' = NoStats
    /\ UNCHANGED <<cmVars, loadVars, now, chatVars, offVars, winVars, wfVars>>

RateTick ==
    /\ Tick(MaxRateTime)
    /\ UNCHANGED <<cmVars, loadVars, chatVars, rateVars, offVars, winVars, wfVars>>

InitSpecRate ==
    /\ now = 0
    /\ InitChat
    /\ InitRate
    /\ InitOff({MaxChunkSize})
    /\ InitWinIdle
    /\ InitWf
    /\ InitCache

NextRate ==
    \/ \E p \in Reqs, k \in Keys, e \in Endpoints : RqArrive(p, k, e)
    \/ \E p \in Reqs, increment \in BOOLEAN : check_rate_limit(p, increment)
    \/ RateTick

SpecRate == InitSpecRate /\ [][NextRate]_vars

\* the count a Check on (k, e) would read in the given state
WindowCount(reqs, k, e, t) ==
    _get_request_count(_cleanup_old_requests(reqs, k, e, LimitFor(e)[2], t), k, e)

\* C3: when a Check admits a request into the last free slot of a window
\* while another request on the same (key, operation) is pending, the entry
\* is already in the window when the step ends: the pending request's own
\* Check at that instant is rejected, so the two are never both admitted.
C3_CheckIsAtomic ==
    [][\A p, q \in Reqs :
          ( /\ p # q
            /\ rq[p].pc = "pending" /\ rq[q].pc = "pending"
            /\ rq[q].key = rq[p].key /\ rq[q].endpoint = rq[p].endpoint
            /\ rq'[p].pc = "idle" /\ rq'[q].pc = "pending"
            /\ admitted'[<<rq[p].key, rq[p].endpoint>>]
                  = Append(admitted[<<rq[p].key, rq[p].endpoint>>], now)
            /\ WindowCount(requests, rq[p].key, rq[p].endpoint, now)
                  = LimitFor(rq[p].endpoint)[1] - 1 )
          => ~CheckResult(requests', rq[q].key, rq[q].endpoint, TRUE, now').info.allowed
      ]_vars

\* a request took the last slot of the window while another one on the same
\* (key, operation) was pending
C3_Witness_LastSlotTaken ==
    \E q \in Reqs :
        /\ rq[q].pc = "pending"
        /\ admitted[<<rq[q].key, rq[q].endpoint>>] # <<>>
        /\ LET a == admitted[<<rq[q].key, rq[q].endpoint>>] IN a[Len(a)] = now
        /\ info.allowed /\ info.remaining = 0
        /\ WindowCount(requests, rq[q].key, rq[q].endpoint, now)
              = LimitFor(rq[q].endpoint)[1]

\* C4: for every (key, operation) and every instant t, the admissions made
\* with increment=True whose timestamps lie in (t - window, t] number at
\* most limit, wherever the fixed bucket boundaries fall.
C4_SlidingWindowLimit ==
    \A k \in Keys, e \in Endpoints, t \in 0..(MaxRateTime + 1) :
        Cardinality({ i \in DOMAIN admitted[<<k, e>>] :
                        /\ admitted[<<k, e>>][i] > t - LimitFor(e)[2]
                        /\ admitted[<<k, e>>][i] <= t }) <= LimitFor(e)[1]

\* a Check was rejected on a window whose entries lie on both sides of a
\* fixed bucket boundary (one before the boundary, one at it)
C4_Witness_AcrossBoundary ==
    \E k \in Keys, e \in Endpoints :
        /\ <<k, e>> \in DOMAIN requests
        /\ ~info.allowed
        /\ now % LimitFor(e)[2] = 0
        /\ Len(requests[<<k, e>>]) = LimitFor(e)[1]
        /\ requests[<<k, e>>][1][1] = now - 1
        /\ requests[<<k, e>>][Len(requests[<<k, e>>])][1] = now

(***************************************************************************)
(* InMemoryContextOffloader.  A row is <<position, len(json.dumps(row))>>: *)
(* the position tells equal rows apart, the size is all _chunk_data reads. *)
(***************************************************************************)
RowSeqs ==
    UNION { { [i \in 1..n |-> <<i, f[i]>>] : f \in [1..n -> 1..MaxRowSize] }
            : n \in 0..MaxRows }

\* line 46: adding the row would exceed the context size
Overflows_M(current_size, row_size, size) == current_size > size

Overflows(current_size, row_size, size) == current_size + row_size > size

\* lines 32-52: one iteration of the loop of _chunk_data, on the loop state
\* (chunks, current_chunk, current_size)
ChunkStep_M(st, row, size) ==
    LET row_size == row[2]
    IN  IF row_size > size
        THEN [chunks |-> (IF st.current_chunk # <<>>
                          THEN Append(st.chunks, st.current_chunk)
                          ELSE st.chunks) \o << <<row>> >>,
              current_chunk |-> <<>>,
              current_size |-> 0]
        ELSE IF Overflows(st.current_size, row_size, size) /\ st.current_chunk # <<>>
             THEN [chunks |-> Append(st.chunks, st.current_chunk),
                   current_chunk |-> <<>>,
                   current_size |-> 0]
             ELSE [chunks |-> st.chunks,
                   current_chunk |-> Append(st.current_chunk, row),
                   current_size |-> st.current_size + row_size]

ChunkStep(st, row, size) ==
    LET row_size == row[2]
    IN  IF row_size > size
        THEN [chunks |-> (IF st.current_chunk # <<>>
                          THEN Append(st.chunks, st.current_chunk)
                          ELSE st.chunks) \o << <<row>> >>,
              current_chunk |-> <<>>,
              current_size |-> 0]
        ELSE IF Overflows(st.current_size, row_size, size) /\ st.current_chunk # <<>>
             THEN [chunks |-> Append(st.chunks, st.current_chunk),
                   current_chunk |-> <<row>>,
                   current_size |-> row_size]
             ELSE [chunks |-> st.chunks,
                   current_chunk |-> Append(st.current_chunk, row),
                   current_size |-> st.current_size + row_size]

RECURSIVE ChunkLoop(_, _, _)
ChunkLoop(st, rows, size) ==
    IF rows = <<>> THEN st
    ELSE ChunkLoop(ChunkStep(st, Head(rows), size), Tail(rows), size)

\* _chunk_data(rows)
_chunk_data(rows, size) ==
    LET st == ChunkLoop([chunks |-> <<>>, current_chunk |-> <<>>,
                         current_size |-> 0], rows, size)
    IN  IF st.current_chunk # <<>> THEN Append(st.chunks, st.current_chunk)
        ELSE st.chunks

\* store(rows, query): chunk the rows and register the session under a new id
store(session_id, rows) ==
    /\ session_id \notin DOMAIN requested    \* uuid4: an id is issued once
    /\ LET chunks == _chunk_data(rows, chunk_context_size)
           \* lines 113-122; None is written -1
           chunk_tracking ==
               [idx \in 0..(Len(chunks) - 1) |->
                   [retrieved |-> FALSE, retrieval_count |-> 0,
                    first_retrieval |-> -1, last_retrieval |-> -1,
                    row_count |-> Len(chunks[idx + 1])]]
           session == [chunks |-> chunks,
                       total_chunks |-> Len(chunks),
                       total_rows |-> Len(rows),
                       summary |-> [total_invoices |-> Len(rows)],
                       chunk_tracking |-> chunk_tracking,
                       retrieval_history |-> <<>>,
                       rows |-> rows]     \* history: the rows handed to store
       IN  /\ storage' = [x \in DOMAIN storage \cup {session_id} |->
                              IF x = session_id THEN session ELSE storage[x]]
           /\ requested' = [x \in DOMAIN requested \cup {session_id} |->
                              IF x = session_id
                              THEN [counts |-> [idx \in 0..(Len(chunks) - 1) |-> 0],
                                    calls |-> 0, last |-> <<>>]
                              ELSE requested[x]]
    /\ chunk_result' = NoResult
    /\ off_return' = NoReturn
    /\ UNCHANGED <<cmVars, loadVars, now, chunk_context_size, tc, chatVars, rateVars, winVars, wfVars>>

InitSpecChunk ==
    /\ now = 0
    /\ InitChat
    /\ InitRate
    /\ InitOff(1..MaxChunkSize)
    /\ InitWinIdle
    /\ InitWf
    /\ InitCache

NextChunk ==
    \E session_id \in SessionIds, rows \in RowSeqs : store(session_id, rows)

SpecChunk == InitSpecChunk /\ [][NextChunk]_vars

RECURSIVE Flatten(_)
Flatten(chunks) ==
    IF chunks = <<>> THEN <<>> ELSE Head(chunks) \o Flatten(Tail(chunks))

\* C10: for every stored session, the chunks concatenated in order are the
\* row sequence handed to store: no row duplicated, dropped or reordered.
C10_ChunkCoverage ==
    \A x \in DOMAIN storage : Flatten(storage[x].chunks) = storage[x].rows

\* a session whose rows were split into several chunks, one of them holding
\* more than one row and one of them a single oversized row
C10_Witness_SeveralChunks ==
    \E x \in DOMAIN storage :
        /\ storage[x].total_chunks >= 3
        /\ \E c \in DOMAIN storage[x].chunks : Len(storage[x].chunks[c]) >= 2
        /\ \E c \in DOMAIN storage[x].chunks :
              /\ Len(storage[x].chunks[c]) = 1
              /\ storage[x].chunks[c][1][2] > chunk_context_size

RECURSIVE SumSizes(_)
SumSizes(chunk) ==
    IF chunk = <<>> THEN 0 ELSE Head(chunk)[2] + SumSizes(Tail(chunk))

\* C11: every chunk of a stored session is non-empty, is made of whole rows
\* of the input, and either its rows' serialized sizes add up to at most
\* chunk_context_size or it is a single row that is itself larger than
\* chunk_context_size.
C11_ChunkSizeBound ==
    \A x \in DOMAIN storage :
        \A c \in DOMAIN storage[x].chunks :
            LET chunk == storage[x].chunks[c]
            IN  /\ chunk # <<>>
                /\ Elems(chunk) \subseteq Elems(storage[x].rows)
                /\ \/ SumSizes(chunk) <= chunk_context_size
                   \/ Len(chunk) = 1 /\ chunk[1][2] > chunk_context_size

\* a session with a chunk filled exactly to chunk_context_size by two rows,
\* followed by a chunk opened by the row that did not fit, and with an
\* oversized row in a chunk of its own
C11_Witness_FullAndOversized ==
    \E x \in DOMAIN storage :
        /\ \E c \in DOMAIN storage[x].chunks :
              /\ Len(storage[x].chunks[c]) = 2
              /\ SumSizes(storage[x].chunks[c]) = chunk_context_size
              /\ c + 1 \in DOMAIN storage[x].chunks
              /\ storage[x].chunks[c + 1][1][2] <= chunk_context_size
        /\ \E c \in DOMAIN storage[x].chunks :
              /\ Len(storage[x].chunks[c]) = 1
              /\ storage[x].chunks[c][1][2] > chunk_context_size

(***************************************************************************)
(* WindowedCheckpointer / AdaptiveWindowedCheckpointer.  A message is      *)
(* [id, content_len]: the id is its position in the stored history, the    *)
(* length of its content is all the window reads.                          *)
(***************************************************************************)
\* lengths of message contents: estimates of 0, 1 and 2 tokens
ContentLens == {3, 4, 8}

\* _estimate_tokens(message): len(str(content)) // 4
_estimate_tokens(message) == message.content_len \div 4

\* line 152: the message does not fit the token budget
OverBudget_M(total_tokens, msg_tokens, budget) == total_tokens + msg_tokens >= budget

OverBudget(total_tokens, msg_tokens, budget) == total_tokens + msg_tokens > budget

\* line 157: windowed_messages.insert(0, msg)
InsertFront_M(msg, windowed_messages) == Append(windowed_messages, msg)

InsertFront(msg, windowed_messages) == <<msg>> \o windowed_messages

\* lines 145-158: the loop over reversed(messages); `older` is the part of
\* the history not yet visited, `windowed_messages` what has been kept
RECURSIVE WindowWalk(_, _, _, _, _, _)
WindowWalk(older, windowed_messages, total_tokens, size, budget, floor) ==
    IF older = <<>> THEN windowed_messages
    ELSE LET msg == older[Len(older)]
             msg_tokens == _estimate_tokens(msg)
         IN  IF Len(windowed_messages) >= size THEN windowed_messages
             ELSE IF /\ OverBudget(total_tokens, msg_tokens, budget)
                     /\ Len(windowed_messages) >= floor
                  THEN windowed_messages
                  ELSE WindowWalk(SubSeq(older, 1, Len(older) - 1),
                                  InsertFront(msg, windowed_messages),
                                  total_tokens + msg_tokens, size, budget, floor)

\* the messages AdaptiveWindowedCheckpointer.get_tuple leaves in the state
AdaptiveWindow(msgs, size, budget, floor) ==
    WindowWalk(msgs, <<>>, 0, size, budget, floor)

\* line 36 of WindowedCheckpointer.get_tuple: messages[-window_size:]
FixedWindow(msgs, size) ==
    IF size = 0 \/ size >= Len(msgs) THEN msgs
    ELSE SubSeq(msgs, Len(msgs) - size + 1, Len(msgs))

\* put(config, checkpoint, ...): the graph checkpoints a history one message
\* longer
put(content_len) ==
    /\ Len(checkpoint_messages) < MaxCheckpointMsgs
    /\ checkpoint_messages' =
          Append(checkpoint_messages,
                 [id |-> Len(checkpoint_messages) + 1, content_len |-> content_len])
    /\ UNCHANGED <<cmVars, loadVars, now, window_size, max_window_tokens, min_window_size,
                   window_read, graph, recorded, chatVars, rateVars, offVars,
                   wfVars>>

\* AdaptiveWindowedCheckpointer.get_tuple(config)
get_tuple ==
    /\ window_read' =
          [kind |-> "adaptive",
           original_count |-> Len(checkpoint_messages),
           messages |-> AdaptiveWindow(checkpoint_messages, window_size,
                                       max_window_tokens, min_window_size)]
    /\ UNCHANGED <<cmVars, loadVars, now, window_size, max_window_tokens, min_window_size,
                   checkpoint_messages, graph, recorded, chatVars, rateVars,
                   offVars, wfVars>>

\* WindowedCheckpointer.get_tuple(config)
get_tuple_fixed ==
    /\ window_read' =
          [kind |-> "fixed",
           original_count |-> Len(checkpoint_messages),
           messages |-> FixedWindow(checkpoint_messages, window_size)]
    /\ UNCHANGED <<cmVars, loadVars, now, window_size, max_window_tokens, min_window_size,
                   checkpoint_messages, graph, recorded, chatVars, rateVars,
                   offVars, wfVars>>

\* every configuration the constructor accepts; create_agent_graph builds
\* (window_size, MAX_WINDOW_TOKENS, max(4, window_size // 2)), whose floor is
\* above the window size for window_size < 4
InitSpecWindow ==
    /\ now = 0
    /\ InitChat
    /\ InitRate
    /\ InitOff({MaxChunkSize})
    /\ InitWin(0..MaxWindowSize, 0..MaxWindowTokens, 1..MaxMinWindow)
    /\ InitWf
    /\ InitCache

NextWindow ==
    \/ \E content_len \in ContentLens : put(content_len)
    \/ get_tuple
    \/ get_tuple_fixed

SpecWindow == InitSpecWindow /\ [][NextWindow]_vars

\* C12: whenever the stored history has at least min_window_size messages,
\* the adaptive window read from it has at least min_window_size messages,
\* for every configuration (window_size, max_window_tokens, min_window_size).
C12_MinWindowKept ==
    (window_read.kind = "adaptive"
        /\ window_read.original_count >= min_window_size)
    => Len(window_read.messages) >= min_window_size

(***************************************************************************)
(* One /chat request (routes.py chat) running the agent graph of graph.py: *)
(* process_input -> generate_response -> (tools -> generate_response)* ->  *)
(* save_messages -> END, then the background save is scheduled.  wf.last   *)
(* is the kind of the last message of state["messages"].                   *)
(***************************************************************************)
\* check_token_limit(chat_id)
check_token_limit_M ==
    IF ~cached THEN TRUE
    ELSE ~(cumulative_tokens.total > max_tokens_per_chat)

check_token_limit ==
    IF ~cached THEN TRUE
    ELSE ~(cumulative_tokens.total >= max_tokens_per_chat)

\* routes.py lines 185-246: the chat is in the cache (get_or_load_chat hits,
\* or create_new_chat has just cached it), the new HumanMessage is appended
\* to the graph state and the graph is invoked
chat_request(message) ==
    /\ wf.node = "idle"
    /\ cached
    /\ wf.requests < MaxRequests
    /\ wf' = [wf EXCEPT !.node = "process_input", !.last = "human",
                        !.user_msg_content = message,
                        !.limit_reached = FALSE, !.llm_calls = 0,
                        !.len0 = Len(messages), !.requests = @ + 1]
    /\ UNCHANGED <<cmVars, loadVars, now, response, chatVars, rateVars, offVars, winVars>>

\* nodes.py process_input: when the budget check fails the terminal message
\* is appended to the state; in both cases the node returns the state and
\* the graph follows the edge process_input -> generate_response (line 38)
process_input ==
    /\ wf.node = "process_input"
    /\ wf' = IF ~check_token_limit
             THEN [wf EXCEPT !.node = "generate_response", !.last = "limit",
                             !.limit_reached = TRUE]
             ELSE [wf EXCEPT !.node = "generate_response"]
    /\ UNCHANGED <<cmVars, loadVars, now, response, chatVars, rateVars, offVars, winVars>>

\* route_after_llm(state)
route_after_llm(last) == IF last = "ai_tool_calls" THEN "tools" ELSE "save"

\* the node a routing key names (graph.py lines 41-48)
RouteNode(key) == IF key = "tools" THEN "tools" ELSE "save_messages"

\* nodes.py generate_response, the LLM answered: the response joins the
\* state, and when the latest HumanMessage has content the user turn and the
\* assistant turn are cached with the reported token counts
generate_response(input_tokens, output_tokens, tool_calls) ==
    /\ wf.node = "generate_response"
    /\ tool_calls => wf.llm_calls < MaxToolLoops
    /\ LET last == IF tool_calls THEN "ai_tool_calls" ELSE "ai"
           c1 == AppendTurn(ChatRecord, "user", input_tokens)
           c2 == AppendTurn(c1, "assistant", output_tokens)
           c == IF wf.user_msg_content # "" THEN c2 ELSE ChatRecord
       IN  /\ wf' = [wf EXCEPT !.node = RouteNode(route_after_llm(last)),
                               !.last = last, !.llm_calls = @ + 1]
           /\ messages' = c.messages
           /\ unsaved_messages' = c.unsaved_messages
           /\ unsaved' = c.unsaved
           /\ cumulative_tokens' = c.cumulative_tokens
           /\ lastAppend' = IF wf.user_msg_content = "" THEN lastAppend
                            ELSE IF cached THEN "cached" ELSE "not_cached"
    /\ UNCHANGED <<cmVars, loadVars, now, response, rateVars, offVars, winVars, cached, last_save,
                   metrics_saved, pc, kind, alias, values, cum, result,
                   db_messages, db_total_tokens, chat_metrics_writes,
                   overlapFlush, overlapEnd, secondEnd, started, autoWrites>>

\* nodes.py lines 174-192: the LLM call raised; the apology joins the state
\* and nothing is cached
generate_response_error ==
    /\ wf.node = "generate_response"
    /\ wf' = [wf EXCEPT !.node = RouteNode(route_after_llm("error")),
                        !.last = "error", !.llm_calls = @ + 1]
    /\ UNCHANGED <<cmVars, loadVars, now, response, chatVars, rateVars, offVars, winVars>>

\* the ToolNode: the tool results join the state; edge tools ->
\* generate_response (line 51)
tool_node ==
    /\ wf.node = "tools"
    /\ wf' = [wf EXCEPT !.node = "generate_response", !.last = "tool"]
    /\ UNCHANGED <<cmVars, loadVars, now, response, chatVars, rateVars, offVars, winVars>>

\* nodes.py save_messages: logs the totals; edge save_messages -> END
save_messages ==
    /\ wf.node = "save_messages"
    /\ wf' = [wf EXCEPT !.node = "end"]
    /\ UNCHANGED <<cmVars, loadVars, now, response, chatVars, rateVars, offVars, winVars>>

\* routes.py lines 249-267: the last message of the state is the response
\* and background_save_chat is scheduled
chat_return ==
    /\ wf.node = "end"
    /\ response' = wf.last
    /\ wf' = [wf EXCEPT !.node = "idle", !.bg_scheduled = @ + 1]
    /\ UNCHANGED <<cmVars, loadVars, now, chatVars, rateVars, offVars, winVars>>

\* routes.py background_save_chat: one scheduled save starts; it calls
\* save_chat_to_db(force=True) and swallows what it raises
background_save_chat(t) ==
    /\ wf.bg_scheduled > 0
    /\ SaveCall(t, TRUE)
    /\ wf' = [wf EXCEPT !.bg_scheduled = @ - 1]
    /\ UNCHANGED response

InitSpecTurn ==
    /\ now = 0
    /\ InitChat
    /\ InitRate
    /\ InitOff({MaxChunkSize})
    /\ InitWinIdle
    /\ InitWf
    /\ InitCache

NextTurn ==
    \/ create_new_chat
    \/ \E message \in {"", "text"} : chat_request(message)
    \/ process_input
    \/ \E input_tokens \in 1..MaxTok, output_tokens \in 0..MaxTok,
          tool_calls \in BOOLEAN :
          generate_response(input_tokens, output_tokens, tool_calls)
    \/ generate_response_error
    \/ tool_node
    \/ save_messages
    \/ chat_return
    \/ \E t \in Tasks : background_save_chat(t)
    \/ \E t \in Tasks : InsertOk(t)
    \/ \E t \in Tasks : InsertFail(t)
    \/ \E t \in Tasks : UpdateOk(t)
    \/ \E t \in Tasks : UpdateFail(t)

SpecTurn == InitSpecTurn /\ [][NextTurn]_vars

\* C13: in a request whose budget check failed, the LLM is not invoked, no
\* turn is appended to the session cache, and the request answers with the
\* terminal 'maximum length' message.
C13_BudgetStopsTurn ==
    wf.limit_reached =>
        /\ wf.llm_calls = 0
        /\ Len(messages) = wf.len0
        /\ wf.node = "idle" => response = "limit"

\* C14: add_message_to_cache for a chat_id that is not in the cache raises an
\* error to its caller; it never returns normally having dropped the turn.
C14_UnknownChatRaises == lastAppend \in {"none", "cached", "raised"}

\* save_chat_to_db called with force=False (its default) on the
\* conversation, with appends and the clock
NextAuto ==
    \/ create_new_chat
    \/ \E tokens \in FlushTokens :
          Len(messages) < MaxTurns /\ add_message_to_cache(NextRole, tokens)
    \/ \E t \in Tasks : save_chat_to_db(t, FALSE)
    \/ \E t \in Tasks : InsertOk(t)
    \/ \E t \in Tasks : InsertFail(t)
    \/ \E t \in Tasks : UpdateOk(t)
    \/ \E t \in Tasks : UpdateFail(t)
    \/ ChatTick

SpecAuto == InitSpecChat /\ [][NextAuto]_vars

\* C15: a save_chat_to_db(force=False) call goes on to the persistence write
\* only if auto_save_interval has elapsed since last_save, and of two
\* force=False calls made less than auto_save_interval apart (one after the
\* other, not overlapping) at most one has its INSERT executed.
C15_AutoFlushHysteresis ==
    /\ [][\A t \in Tasks :
            (started[t] = -1 /\ started'[t] >= 0)
               => now - last_save >= auto_save_interval]_vars
    /\ [](~overlapFlush =>
            \A i, j \in DOMAIN autoWrites :
                i < j => autoWrites[j] - autoWrites[i] >= auto_save_interval)

\* main.py shutdown_event, then the process exits: the handler only logs,
\* so what follows is a process whose memory is gone (the state of a newly
\* started manager) over the same database.  Requests and background tasks
\* in flight are awaited first.
shutdown_event ==
    /\ \A t \in Tasks : pc[t] = "idle"
    /\ cached
    /\ cached' = FALSE
    /\ messages' = <<>>
    /\ unsaved_messages' = <<>>
    /\ cumulative_tokens' = [total |-> 0, input |-> 0, output |-> 0]
    /\ last_save' = 0
    /\ metrics_saved' = FALSE
    /\ UNCHANGED <<cmVars, loadVars, rateVars, offVars, winVars, wfVars, now, pc, kind, unsaved, alias,
                   values, cum, result, db_messages, db_total_tokens,
                   chat_metrics_writes, lastAppend, overlapFlush, overlapEnd,
                   secondEnd, started, autoWrites>>

\* the life of a cached conversation up to the shutdown of the process
NextLife ==
    \/ create_new_chat
    \/ \E tokens \in FlushTokens :
          Len(messages) < MaxTurns /\ add_message_to_cache(NextRole, tokens)
    \/ \E t \in Tasks : save_chat_to_db(t, TRUE)
    \/ \E t \in Tasks : InsertOk(t)
    \/ \E t \in Tasks : InsertFail(t)
    \/ \E t \in Tasks : UpdateOk(t)
    \/ \E t \in Tasks : UpdateFail(t)
    \/ shutdown_event

SpecLife == InitSpecChat /\ [][NextLife]_vars

\* C16: when a conversation leaves memory (process shutdown; the program
\* has no idle-timeout eviction), every turn of its unsaved queue is in the
\* store once the step is over.
C16_FlushBeforeRemoval ==
    [][(cached /\ ~cached') =>
          \A m \in Elems(unsaved_messages) : m.id \in Elems(db_messages')]_vars

\* What the event loop and the store guarantee: a running request and a
\* scheduled background task take their next step, a statement handed to
\* run_query returns, and a statement that is attempted again and again
\* eventually succeeds.  Nothing obliges a user to send another request.
FairTurn ==
    /\ WF_vars(process_input)
    /\ WF_vars(\E input_tokens \in 1..MaxTok, output_tokens \in 0..MaxTok,
                  tool_calls \in BOOLEAN :
                  generate_response(input_tokens, output_tokens, tool_calls))
    /\ WF_vars(tool_node)
    /\ WF_vars(save_messages)
    /\ WF_vars(chat_return)
    /\ \A t \in Tasks :
          /\ WF_vars(background_save_chat(t))
          /\ WF_vars(InsertOk(t) \/ InsertFail(t))
          /\ WF_vars(UpdateOk(t) \/ UpdateFail(t))
          /\ SF_vars(InsertOk(t))
          /\ SF_vars(UpdateOk(t))

SpecTurnFair == SpecTurn /\ FairTurn

\* C17: a flush that fails leaves the conversation cached with its unsaved
\* queue as it was, and every turn in the message log is eventually in the
\* store (as far as the explored store has room for it).
C17_RetriedUntilPersisted ==
    /\ [][\A t \in Tasks :
            (InsertFail(t) \/ UpdateFail(t))
               => cached' /\ unsaved_messages' = unsaved_messages]_vars
    /\ \A i \in 1..(2 * MaxRequests * (MaxToolLoops + 1)) :
          (cached /\ Len(messages) >= i)
             ~> (i \in Elems(db_messages) \/ Len(db_messages) >= MaxDbRows)

(***************************************************************************)
(* InMemoryContextOffloader.get_chunks and get_retrieval_stats.            *)
(***************************************************************************)
\* the sizes of the stored rows: with a context size of 2, two rows share a
\* chunk and every third row fills one
StoredRows(n) == [i \in 1..n |-> <<i, IF i % 3 = 0 THEN 2 ELSE 1>>]

RetrievalChunkSize == 2

\* a session id no store call has returned
RequestIds == SessionIds \cup {"session_0"}

\* the index lists a caller may pass for a session of total chunks: every
\* valid index, and one index on each side of the range
IndexLists(total) ==
    UNION { [1..n -> (-1)..total] : n \in 0..MaxRequestLen }

\* line 173: the indices outside [0, total_chunks), in request order
InvalidIndices_M(chunk_indices, total_chunks) ==
    LET bad == SelectSeq(chunk_indices, LAMBDA idx : idx < 0 \/ idx >= total_chunks)
    IN  IF bad = <<>> THEN bad ELSE <<Head(bad)>>

InvalidIndices(chunk_indices, total_chunks) ==
    SelectSeq(chunk_indices, LAMBDA idx : idx < 0 \/ idx >= total_chunks)

\* line 191: tracking["retrieval_count"] += 1
BumpCount_M(retrieval_count) == 1

BumpCount(retrieval_count) == retrieval_count + 1

\* lines 193-194: first_retrieval is written only while it is None (-1)
FirstRetrieval_M(first_retrieval, retrieval_time) == retrieval_time

FirstRetrieval(first_retrieval, retrieval_time) ==
    IF first_retrieval = -1 THEN retrieval_time ELSE first_retrieval

\* lines 189-195: the ledger entry of a chunk after one more retrieval
Track_M(tracking, retrieval_time) ==
    [retrieved |-> TRUE,
     retrieval_count |-> IF tracking.retrieved THEN tracking.retrieval_count
                         ELSE 1,
     first_retrieval |-> FirstRetrieval(tracking.first_retrieval, retrieval_time),
     last_retrieval |-> retrieval_time,
     row_count |-> tracking.row_count]

Track(tracking, retrieval_time) ==
    [retrieved |-> TRUE,
     retrieval_count |-> BumpCount(tracking.retrieval_count),
     first_retrieval |-> FirstRetrieval(tracking.first_retrieval, retrieval_time),
     last_retrieval |-> retrieval_time,
     row_count |-> tracking.row_count]

\* lines 185-195: the loop over chunk_indices, on (chunks_data, chunk_tracking)
RECURSIVE RetrieveLoop(_, _, _, _)
RetrieveLoop(st, chunks, chunk_indices, retrieval_time) ==
    IF chunk_indices = <<>> THEN st
    ELSE LET idx == Head(chunk_indices)
         IN  RetrieveLoop(
                 [chunks_data |-> st.chunks_data \o chunks[idx + 1],
                  chunk_tracking |->
                      [st.chunk_tracking EXCEPT ![idx] = Track(@, retrieval_time)]],
                 chunks, Tail(chunk_indices), retrieval_time)

\* range(total_chunks)
Range(total_chunks) == [i \in 1..total_chunks |-> i - 1]

\* lines 205-208: the indices of the chunks not marked retrieved
RemainingIndices_M(chunk_tracking, total_chunks) ==
    SelectSeq(Range(total_chunks),
              LAMBDA i : chunk_tracking[i].retrieval_count < 2)

RemainingIndices(chunk_tracking, total_chunks) ==
    SelectSeq(Range(total_chunks), LAMBDA i : ~chunk_tracking[i].retrieved)

\* lines 211-214: the number of chunks marked retrieved
RetrievedCount(chunk_tracking) ==
    Cardinality({ i \in DOMAIN chunk_tracking : chunk_tracking[i].retrieved })

ErrorResult(message, invalid_indices) ==
    [NoResult EXCEPT !.status = "error", !.message = message,
                     !.invalid_indices = invalid_indices]

\* lines 185-202: what get_chunks writes into the session record, the ledger
\* and one more history entry
UpdateSession_M(stored, chunk_tracking, entry) ==
    [stored EXCEPT !.chunk_tracking = chunk_tracking,
                   !.retrieval_history = Append(@, entry),
                   !.summary = [total_invoices |-> entry.rows_retrieved]]

UpdateSession(stored, chunk_tracking, entry) ==
    [stored EXCEPT !.chunk_tracking = chunk_tracking,
                   !.retrieval_history = Append(@, entry)]

\* get_chunks(session_id, chunk_indices) at time t: the new self.storage and
\* what the call returns.  With total_chunks = 0 the division of line 215
\* raises ZeroDivisionError after the history entry has been appended.
GetChunks(stor, session_id, chunk_indices, t) ==
    IF session_id \notin DOMAIN stor
    THEN [storage |-> stor, result |-> ErrorResult("not_found", <<>>)]
    ELSE
    LET stored == stor[session_id]
        total_chunks == stored.total_chunks
        invalid_indices == InvalidIndices(chunk_indices, total_chunks)
    IN  IF invalid_indices # <<>>
        THEN [storage |-> stor,
              result |-> ErrorResult("invalid_indices", invalid_indices)]
        ELSE
        LET st == RetrieveLoop([chunks_data |-> <<>>,
                                chunk_tracking |-> stored.chunk_tracking],
                               stored.chunks, chunk_indices, t)
            entry == [timestamp |-> t, chunk_indices |-> chunk_indices,
                      rows_retrieved |-> Len(st.chunks_data)]
            after == UpdateSession(stored, st.chunk_tracking, entry)
            remaining_indices == RemainingIndices(st.chunk_tracking, total_chunks)
            retrieved_count == RetrievedCount(st.chunk_tracking)
        IN  [storage |-> [stor EXCEPT ![session_id] = after],
             result |->
                IF total_chunks = 0
                THEN [NoResult EXCEPT !.status = "exception",
                                      !.message = "ZeroDivisionError"]
                ELSE [status |-> "success",
                      message |-> IF remaining_indices # <<>> THEN "progress"
                                  ELSE "all_retrieved",
                      invalid_indices |-> <<>>,
                      retrieved_chunks |-> chunk_indices,
                      rows_in_response |-> Len(st.chunks_data),
                      total_chunks_available |-> total_chunks,
                      chunks_remaining |-> Len(remaining_indices),
                      remaining_chunk_indices |-> remaining_indices,
                      data |-> st.chunks_data,
                      chunks_retrieved |-> retrieved_count]]

\* lines 256-281 of get_retrieval_stats on a session record; with
\* total_chunks = 0 the division of line 276 raises
StatsOf(stored) ==
    LET never_retrieved == RemainingIndices(stored.chunk_tracking, stored.total_chunks)
    IN  [status |-> IF stored.total_chunks = 0 THEN "exception" ELSE "ok",
         total_chunks |-> stored.total_chunks,
         chunks_retrieved |-> RetrievedCount(stored.chunk_tracking),
         chunks_never_retrieved |-> Len(never_retrieved),
         never_retrieved_indices |-> never_retrieved]

get_retrieval_stats(session_id) == StatsOf(storage[session_id])

\* number of indices requested so far by the successful calls on a session
RECURSIVE SumCountsOver(_, _)
SumCountsOver(f, S) ==
    IF S = {} THEN 0
    ELSE LET x == CHOOSE y \in S : TRUE IN f[x] + SumCountsOver(f, S \ {x})

TotalRequested(session_id) ==
    SumCountsOver(requested[session_id].counts,
                  DOMAIN requested[session_id].counts)

\* number of occurrences of idx in a list
Occurrences(chunk_indices, idx) ==
    Cardinality({ i \in DOMAIN chunk_indices : chunk_indices[i] = idx })

\* the body of get_chunks(session_id, chunk_indices): it has no await
GetChunksStep(session_id, chunk_indices) ==
    /\ LET r == GetChunks(storage, session_id, chunk_indices, now)
       IN  /\ storage' = r.storage
           /\ chunk_result' = r.result
           /\ requested' =
                 IF r.result.status = "success"
                 THEN [requested EXCEPT ![session_id] =
                         [counts |-> [idx \in DOMAIN @.counts |->
                                         @.counts[idx] + Occurrences(chunk_indices, idx)],
                          calls |-> @.calls + 1,
                          last |-> chunk_indices]]
                 ELSE requested
    /\ off_return' = NoReturn
    /\ UNCHANGED <<cmVars, loadVars, now, chunk_context_size, chatVars, rateVars, winVars, wfVars>>

\* get_chunks(session_id, chunk_indices) called directly
get_chunks(session_id, chunk_indices) ==
    /\ session_id \in DOMAIN storage =>
          /\ Len(storage[session_id].retrieval_history) < MaxRetrievals
          /\ TotalRequested(session_id) + Len(chunk_indices) <= MaxRequested
    /\ GetChunksStep(session_id, chunk_indices)
    /\ UNCHANGED tc

InitSpecRetrieve ==
    /\ now = 0
    /\ InitChat
    /\ InitRate
    /\ InitOff({RetrievalChunkSize})
    /\ InitWinIdle
    /\ InitWf
    /\ InitCache

NextRetrieve ==
    \/ \E session_id \in SessionIds, n \in 0..MaxStoredRows :
          store(session_id, StoredRows(n))
    \/ \E session_id \in RequestIds :
          \E chunk_indices \in IndexLists(IF session_id \in DOMAIN storage
                                         THEN storage[session_id].total_chunks
                                         ELSE 0) :
             get_chunks(session_id, chunk_indices)

SpecRetrieve == InitSpecRetrieve /\ [][NextRetrieve]_vars

\* C18: in every reachable state, get_chunks on an unknown session_id returns
\* the not-found error, and get_chunks with some index outside
\* [0, total_chunks) returns the invalid-index error whose list holds exactly
\* the offending indices; in both cases self.storage is left as it is, valid
\* indices of the same request included.
C18_ErrorsMutateNothing ==
    \A session_id \in RequestIds :
        \A chunk_indices \in IndexLists(IF session_id \in DOMAIN storage
                                       THEN storage[session_id].total_chunks
                                       ELSE 0) :
            LET r == GetChunks(storage, session_id, chunk_indices, now)
                offending ==
                    { chunk_indices[i] : i \in
                        { j \in DOMAIN chunk_indices :
                            chunk_indices[j] \notin
                               0..(storage[session_id].total_chunks - 1) } }
            IN  IF session_id \notin DOMAIN storage
                THEN /\ r.result.status = "error"
                     /\ r.result.message = "not_found"
                     /\ r.storage = storage
                ELSE offending # {} =>
                        /\ r.result.status = "error"
                        /\ r.result.message = "invalid_indices"
                        /\ Elems(r.result.invalid_indices) = offending
                        /\ r.storage = storage

\* a request with an index below the range and one above it was rejected on
\* a session one of whose chunks had already been retrieved
C18_Witness_MixedRequestRejected ==
    \E x \in DOMAIN storage :
        /\ chunk_result.status = "error"
        /\ chunk_result.invalid_indices = <<-1, storage[x].total_chunks>>
        /\ storage[x].total_chunks >= 2
        /\ \E i \in DOMAIN storage[x].chunk_tracking :
              storage[x].chunk_tracking[i].retrieved
        /\ Len(storage[x].retrieval_history) = 1

\* the elements of a finite set of integers in ascending order
RECURSIVE Ascending(_)
Ascending(S) ==
    IF S = {} THEN <<>>
    ELSE LET m == CHOOSE x \in S : \A y \in S : x <= y
         IN  <<m>> \o Ascending(S \ {m})

\* C19: a successful get_chunks returns the rows of the requested chunks
\* concatenated in the order requested; its remaining indices are, in
\* ascending order, the chunks no successful call has requested so far;
\* get_retrieval_stats then reports as retrieved the chunks requested at
\* least once and as never retrieved the others; and whenever
\* get_retrieval_stats reports, chunks_retrieved + chunks_never_retrieved is
\* total_chunks.
C19_RetrievalReturnsRequested ==
    /\ [][\A x \in DOMAIN storage :
            (x \in DOMAIN storage' /\ requested'[x].calls = requested[x].calls + 1)
            => LET chunk_indices == requested'[x].last
                   counts == requested'[x].counts
                   stats == StatsOf(storage'[x])
               IN  /\ chunk_result'.status = "success"
                   /\ chunk_result'.data =
                         Flatten([i \in 1..Len(chunk_indices) |->
                                     storage[x].chunks[chunk_indices[i] + 1]])
                   /\ chunk_result'.remaining_chunk_indices =
                         Ascending({ i \in DOMAIN counts : counts[i] = 0 })
                   /\ stats.chunks_retrieved =
                         Cardinality({ i \in DOMAIN counts : counts[i] >= 1 })
                   /\ stats.chunks_never_retrieved =
                         Cardinality({ i \in DOMAIN counts : counts[i] = 0 })]_vars
    /\ [](\A x \in DOMAIN storage :
            get_retrieval_stats(x).status = "ok" =>
               get_retrieval_stats(x).chunks_retrieved
                  + get_retrieval_stats(x).chunks_never_retrieved
               = storage[x].total_chunks)

\* three chunks, get_chunks(session, [0]) as the first call: the rows of chunk
\* 0 come back, [1, 2] remain, one chunk is retrieved and two never were
C19_Witness_FirstOfThree ==
    \E x \in DOMAIN storage :
        /\ storage[x].total_chunks = 3
        /\ Len(storage[x].retrieval_history) = 1
        /\ chunk_result.status = "success"
        /\ chunk_result.retrieved_chunks = <<0>>
        /\ chunk_result.data = storage[x].chunks[1]
        /\ chunk_result.remaining_chunk_indices = <<1, 2>>
        /\ get_retrieval_stats(x).chunks_retrieved = 1
        /\ get_retrieval_stats(x).chunks_never_retrieved = 2

\* C20: each chunk's retrieval_count is the number of times its index
\* occurred in the index lists of the successful get_chunks calls, a chunk is
\* marked retrieved iff that count is at least 1, and each successful call
\* makes retrieval_history one entry longer.
C20_RepeatsAreCounted ==
    /\ [](\A x \in DOMAIN storage :
            \A i \in DOMAIN storage[x].chunk_tracking :
               /\ storage[x].chunk_tracking[i].retrieval_count
                     = requested[x].counts[i]
               /\ storage[x].chunk_tracking[i].retrieved
                     <=> storage[x].chunk_tracking[i].retrieval_count >= 1)
    /\ [][\A x \in DOMAIN storage :
            (x \in DOMAIN storage' /\ requested'[x].calls = requested[x].calls + 1)
            => Len(storage'[x].retrieval_history)
                  = Len(storage[x].retrieval_history) + 1]_vars

\* a chunk requested twice in one call and once more in a second call
C20_Witness_ThreeRetrievals ==
    \E x \in DOMAIN storage :
        /\ Len(storage[x].retrieval_history) = 2
        /\ storage[x].retrieval_history[1].chunk_indices = <<0, 0>>
        /\ storage[x].retrieval_history[2].chunk_indices = <<0>>
        /\ storage[x].chunk_tracking[0].retrieval_count = 3
        /\ \E i \in DOMAIN storage[x].chunk_tracking :
              ~storage[x].chunk_tracking[i].retrieved


(***************************************************************************)
(* InMemoryContextOffloader with several sessions: store, get_chunks,      *)
(* get_summary, get_retrieval_stats and clear, under an advancing clock.   *)
(***************************************************************************)
OffloadIds == {"session_1", "session_2"}

\* the ids a caller may pass: the issued ones and one never issued
OffloadRequestIds == OffloadIds \cup {"session_0"}

\* the index lists passed to get_chunks: the lists of valid indices, and
\* [0] for a session that is not stored or has no chunk
OffloadIndexLists(total) ==
    UNION { [1..n -> 0..(total - 1)] : n \in 0..MaxOffloadLen } \cup {<<0>>}

\* the rows stored: with a context size of 2 the first row fills a chunk and
\* the next two share one
OffloadRows(n) == [i \in 1..n |-> <<i, IF i % 3 = 1 THEN 2 ELSE 1>>]

\* uuid4 names are interchangeable: the sessions are issued in this order
NextSessionId ==
    IF "session_1" \notin DOMAIN requested THEN "session_1" ELSE "session_2"

\* get_summary(session_id): the stored summary, or None
GetSummary(stor, session_id) ==
    IF session_id \notin DOMAIN stor
    THEN [op |-> "get_summary", session_id |-> session_id, status |-> "None"]
    ELSE [op |-> "get_summary", session_id |-> session_id, status |-> "ok",
          summary |-> stor[session_id].summary]

\* get_retrieval_stats(session_id): the ledger dump, None, or the
\* ZeroDivisionError of line 276
GetRetrievalStats(stor, session_id) ==
    IF session_id \notin DOMAIN stor
    THEN [op |-> "get_retrieval_stats", session_id |-> session_id,
          status |-> "None"]
    ELSE [op |-> "get_retrieval_stats", session_id |-> session_id,
          status |-> StatsOf(stor[session_id]).status,
          stats |-> StatsOf(stor[session_id])]

\* clear(session_id): the new self.storage and what the call returns.  The
\* stats are computed for the log line before the del (line 321), so their
\* ZeroDivisionError leaves the session where it is.
Clear(stor, session_id) ==
    IF session_id \in DOMAIN stor
    THEN IF GetRetrievalStats(stor, session_id).status = "exception"
         THEN [storage |-> stor,
               result |-> [op |-> "clear", session_id |-> session_id,
                           status |-> "exception"]]
         ELSE [storage |-> [x \in DOMAIN stor \ {session_id} |-> stor[x]],
               result |-> [op |-> "clear", session_id |-> session_id,
                           status |-> "True"]]
    ELSE [storage |-> stor,
          result |-> [op |-> "clear", session_id |-> session_id,
                      status |-> "False"]]

get_summary(session_id) ==
    /\ off_return' = GetSummary(storage, session_id)
    /\ chunk_result' = NoResult
    /\ UNCHANGED <<cmVars, loadVars, now, chunk_context_size, storage, requested, tc,
                   chatVars, rateVars, winVars, wfVars>>

get_retrieval_stats_call(session_id) ==
    /\ off_return' = GetRetrievalStats(storage, session_id)
    /\ chunk_result' = NoResult
    /\ UNCHANGED <<cmVars, loadVars, now, chunk_context_size, storage, requested, tc,
                   chatVars, rateVars, winVars, wfVars>>

clear(session_id) ==
    /\ LET r == Clear(storage, session_id)
       IN  /\ storage' = r.storage
           /\ off_return' = r.result
           \* the history of a removed session is dropped with it
           /\ requested' = [x \in DOMAIN requested |->
                               IF x \in DOMAIN r.storage THEN requested[x]
                               ELSE [counts |-> <<>>, calls |-> 0, last |-> <<>>]]
    /\ chunk_result' = NoResult
    /\ UNCHANGED <<cmVars, loadVars, now, chunk_context_size, tc, chatVars, rateVars, winVars, wfVars>>

OffTick ==
    /\ Tick(MaxTime)
    /\ UNCHANGED <<cmVars, loadVars, chatVars, rateVars, offVars, winVars, wfVars>>

\* number of get_chunks calls recorded over all stored sessions
TotalHistory ==
    SumCountsOver([x \in DOMAIN storage |-> Len(storage[x].retrieval_history)],
                  DOMAIN storage)

InitSpecOffload ==
    /\ now = 0
    /\ InitChat
    /\ InitRate
    /\ InitOff({RetrievalChunkSize})
    /\ InitWinIdle
    /\ InitWf
    /\ InitCache

NextOffload ==
    \/ \E n \in 0..MaxOffloadRows : store(NextSessionId, OffloadRows(n))
    \/ \E session_id \in OffloadRequestIds :
          \E chunk_indices \in OffloadIndexLists(
                                  IF session_id \in DOMAIN storage
                                  THEN storage[session_id].total_chunks
                                  ELSE 0) :
             /\ TotalHistory < MaxOffloadCalls
             /\ get_chunks(session_id, chunk_indices)
    \/ \E session_id \in OffloadRequestIds : get_summary(session_id)
    \/ \E session_id \in OffloadRequestIds : get_retrieval_stats_call(session_id)
    \/ \E session_id \in OffloadRequestIds : clear(session_id)

SpecOffload == InitSpecOffload /\ [][NextOffload]_vars

\* one session under an advancing clock: the timestamps of the ledger
NextTrack ==
    \/ \E n \in 0..MaxOffloadRows : store("session_1", OffloadRows(n))
    \/ \E chunk_indices \in OffloadIndexLists(
                              IF "session_1" \in DOMAIN storage
                              THEN storage["session_1"].total_chunks
                              ELSE 0) :
          /\ TotalHistory < MaxOffloadCalls
          /\ get_chunks("session_1", chunk_indices)
    \/ get_retrieval_stats_call("session_1")
    \/ clear("session_1")
    \/ OffTick

SpecTrack == InitSpecOffload /\ [][NextTrack]_vars

\* C21: in every step that leaves a session stored, each chunk's
\* retrieval_count does not decrease, a chunk marked retrieved stays marked,
\* a first_retrieval timestamp that is set keeps its value, and the
\* never-retrieved indices reported by get_retrieval_stats are among those
\* reported before the step.
C21_TrackingMonotone ==
    [][\A x \in DOMAIN storage \cap DOMAIN storage' :
          /\ DOMAIN storage'[x].chunk_tracking = DOMAIN storage[x].chunk_tracking
          /\ \A i \in DOMAIN storage[x].chunk_tracking :
                LET before == storage[x].chunk_tracking[i]
                    after == storage'[x].chunk_tracking[i]
                IN  /\ after.retrieval_count >= before.retrieval_count
                    /\ before.retrieved => after.retrieved
                    /\ before.first_retrieval # -1 =>
                          after.first_retrieval = before.first_retrieval
          /\ Elems(StatsOf(storage'[x]).never_retrieved_indices)
                \subseteq Elems(StatsOf(storage[x]).never_retrieved_indices)]_vars

\* a chunk retrieved at time 0 and again at time 1 keeps its first timestamp,
\* while another chunk of the session was never retrieved
C21_Witness_RetrievedTwiceLater ==
    \E x \in DOMAIN storage :
        /\ \E i \in DOMAIN storage[x].chunk_tracking :
              /\ storage[x].chunk_tracking[i].retrieval_count = 2
              /\ storage[x].chunk_tracking[i].first_retrieval = 0
              /\ storage[x].chunk_tracking[i].last_retrieval = 1
        /\ StatsOf(storage[x]).never_retrieved_indices # <<>>


\* what store fixes for a session: summary, chunk list and total counts
FixedPart(stored) ==
    [summary |-> stored.summary, chunks |-> stored.chunks,
     total_chunks |-> stored.total_chunks, total_rows |-> stored.total_rows]

\* C22: a get_chunks step changes at most the chunk_tracking and the
\* retrieval_history of one session and removes or adds none; a get_summary
\* or get_retrieval_stats step leaves self.storage as it is, and get_summary
\* returns the stored summary; in every step the summary, chunk list and
\* total counts of a session that stays stored are unchanged; and in every
\* state the summary counts all the rows handed to store, which the chunks
\* hold in order.
C22_RetrievalFrame ==
    /\ [][/\ chunk_result' # NoResult =>
               /\ DOMAIN storage' = DOMAIN storage
               /\ Cardinality({ x \in DOMAIN storage : storage'[x] # storage[x] }) <= 1
               /\ \A x \in DOMAIN storage :
                     [storage'[x] EXCEPT
                         !.chunk_tracking = storage[x].chunk_tracking,
                         !.retrieval_history = storage[x].retrieval_history]
                     = storage[x]
          /\ off_return'.op \in {"get_summary", "get_retrieval_stats"} =>
               /\ storage' = storage
               /\ (off_return'.op = "get_summary" /\ off_return'.status = "ok")
                     => off_return'.summary = storage[off_return'.session_id].summary
          /\ \A x \in DOMAIN storage \cap DOMAIN storage' :
               FixedPart(storage'[x]) = FixedPart(storage[x])]_vars
    /\ [](\A x \in DOMAIN storage :
            /\ storage[x].summary.total_invoices = Len(storage[x].rows)
            /\ storage[x].total_rows = Len(storage[x].rows)
            /\ storage[x].total_chunks = Len(storage[x].chunks)
            /\ Flatten(storage[x].chunks) = storage[x].rows)

\* two sessions are stored; one chunk of the first was retrieved, another was
\* not, the second session has no retrieval, and get_summary on the first
\* returns the count of all its rows
C22_Witness_SummaryAfterPartialRetrieval ==
    /\ DOMAIN storage = OffloadIds
    /\ off_return.op = "get_summary"
    /\ off_return.status = "ok"
    /\ off_return.session_id = "session_1"
    /\ off_return.summary.total_invoices = MaxOffloadRows
    /\ Len(storage["session_1"].retrieval_history) = 1
    /\ StatsOf(storage["session_1"]).chunks_retrieved = 1
    /\ StatsOf(storage["session_1"]).chunks_never_retrieved = 1
    /\ storage["session_2"].total_chunks >= 1
    /\ storage["session_2"].retrieval_history = <<>>


(***************************************************************************)
(* The tool node runs the get_context_chunks calls of one assistant        *)
(* message as coroutines on the event loop (tools.py, nodes.py line 17).   *)
(***************************************************************************)
\* number of tool calls scheduled and not yet run
PendingCalls == Cardinality({ p \in ToolCalls : tc[p].pc = "pending" })

\* the tool node schedules get_context_chunks(session_id, chunk_indices)
ToolArrive(p, session_id, chunk_indices) ==
    /\ tc[p].pc # "pending"
    /\ TotalHistory + PendingCalls < MaxOffloadCalls
    /\ tc' = [tc EXCEPT ![p] = [pc |-> "pending", session_id |-> session_id,
                                chunk_indices |-> chunk_indices,
                                seen |-> TotalHistory]]
    /\ UNCHANGED <<cmVars, loadVars, now, chunk_context_size, storage, requested, chunk_result,
                   off_return, chatVars, rateVars, winVars, wfVars>>

\* get_context_chunks, lines 167-204: from its first line to its return the
\* coroutine meets no await, so the call of get_chunks and the return are
\* one step of the event loop
get_context_chunks(p) ==
    /\ tc[p].pc = "pending"
    /\ GetChunksStep(tc[p].session_id, tc[p].chunk_indices)
    /\ tc' = [tc EXCEPT ![p].pc = "done"]

NextTools ==
    \/ \E n \in 0..MaxOffloadRows : store("session_1", OffloadRows(n))
    \/ \E p \in ToolCalls, session_id \in {"session_1", "session_0"} :
          \E chunk_indices \in OffloadIndexLists(
                                  IF session_id \in DOMAIN storage
                                  THEN storage[session_id].total_chunks
                                  ELSE 0) :
             ToolArrive(p, session_id, chunk_indices)
    \/ \E p \in ToolCalls : get_context_chunks(p)

SpecTools == InitSpecOffload /\ [][NextTools]_vars

\* C23: whenever no get_context_chunks call is pending, each chunk's
\* retrieval_count is the number of occurrences of its index in the index
\* lists of the successful get_chunks calls on its session, and the session's
\* retrieval_history has one entry per such call.
C23_NoLostRetrieval ==
    (\A p \in ToolCalls : tc[p].pc # "pending") =>
        \A x \in DOMAIN storage :
            /\ \A i \in DOMAIN storage[x].chunk_tracking :
                  storage[x].chunk_tracking[i].retrieval_count
                     = requested[x].counts[i]
            /\ storage[x].total_chunks > 0 =>
                  Len(storage[x].retrieval_history) = requested[x].calls

\* two calls for chunk 0 of the same session were both scheduled before
\* either had run, both have returned, and chunk 0 counts two retrievals
C23_Witness_TwoCallsSameChunk ==
    /\ \A p \in ToolCalls :
          /\ tc[p].pc = "done"
          /\ tc[p].seen = 0
          /\ tc[p].session_id = "session_1"
          /\ tc[p].chunk_indices = <<0>>
    /\ "session_1" \in DOMAIN storage
    /\ storage["session_1"].total_chunks >= 1
    /\ storage["session_1"].chunk_tracking[0].retrieval_count = 2
    /\ Len(storage["session_1"].retrieval_history) = 2


\* C24: a session stored with no rows has zero chunks, and on such a session
\* get_summary and get_retrieval_stats return a value and get_chunks with an
\* empty index list returns success: none of them raises.
C24_EmptyStoreReadsReturn ==
    /\ \A x \in DOMAIN storage :
          storage[x].rows = <<>> =>
             /\ storage[x].total_chunks = 0
             /\ GetSummary(storage, x).status = "ok"
    /\ (/\ off_return.op \in {"get_summary", "get_retrieval_stats"}
        /\ off_return.session_id \in DOMAIN storage)
          => off_return.status = "ok"
    /\ chunk_result.status # "exception"


\* C25: a clear step on a stored session returns True and removes that
\* session and no other, after which get_chunks reports not-found,
\* get_summary and get_retrieval_stats return None and clear returns False;
\* a clear step on a session that is not stored returns False and leaves
\* self.storage as it is.
C25_ClearRemoves ==
    [][off_return'.op = "clear" =>
          LET x == off_return'.session_id
          IN  IF x \in DOMAIN storage
              THEN /\ off_return'.status = "True"
                   /\ DOMAIN storage' = DOMAIN storage \ {x}
                   /\ \A y \in DOMAIN storage' : storage'[y] = storage[y]
                   /\ GetChunks(storage', x, <<0>>, now).result.message = "not_found"
                   /\ GetSummary(storage', x).status = "None"
                   /\ GetRetrievalStats(storage', x).status = "None"
                   /\ Clear(storage', x).result.status = "False"
              ELSE /\ off_return'.status = "False"
                   /\ storage' = storage]_vars


(***************************************************************************)
(* Properties of the windows, on what get_tuple returned for the history   *)
(* it read: the first original_count messages of the stored history.       *)
(***************************************************************************)
\* the history the last get_tuple call read
WindowInput == SubSeq(checkpoint_messages, 1, window_read.original_count)

\* the last j messages of a history
LastOf(msgs, j) == SubSeq(msgs, Len(msgs) - j + 1, Len(msgs))

\* sum of the token estimates of a list of messages
RECURSIVE SumEstimates(_)
SumEstimates(msgs) ==
    IF msgs = <<>> THEN 0
    ELSE _estimate_tokens(Head(msgs)) + SumEstimates(Tail(msgs))

\* C26: what the adaptive get_tuple returns is the last k messages of the
\* history it read, in the order of that history, for some k <= window_size.
C26_AdaptiveWindowIsSuffix ==
    window_read.kind = "adaptive" =>
        /\ IsSuffix(window_read.messages, WindowInput)
        /\ Len(window_read.messages) <= window_size

\* a history of four messages read through a window that keeps more than
\* one and fewer than all of them
C26_Witness_SeveralKept ==
    /\ window_read.kind = "adaptive"
    /\ window_read.original_count = 4
    /\ Len(window_read.messages) \in {2, 3}
    /\ window_read.messages[1].id = 4 - Len(window_read.messages) + 1
    /\ window_read.messages[Len(window_read.messages)].id = 4

\* C27: in what the adaptive get_tuple returns, every message kept beyond
\* the first min_window_size was added while fewer than window_size messages
\* were kept and brought the sum of the estimates to at most
\* max_window_tokens; when min_window_size or more messages are kept and an
\* older message was left out, either window_size messages are kept or that
\* message would bring the sum above max_window_tokens (so a message that
\* brings it exactly to max_window_tokens is kept); and a result longer
\* than min_window_size has a sum of at most max_window_tokens.
C27_BudgetBeyondFloor ==
    window_read.kind = "adaptive" =>
        LET k == Len(window_read.messages)
            n == Len(WindowInput)
        IN  /\ \A j \in (min_window_size + 1)..k :
                  /\ j - 1 < window_size
                  /\ SumEstimates(LastOf(WindowInput, j)) <= max_window_tokens
            /\ (k < n /\ k >= min_window_size) =>
                  \/ k >= window_size
                  \/ SumEstimates(LastOf(WindowInput, k + 1)) > max_window_tokens
            /\ k > min_window_size =>
                  SumEstimates(window_read.messages) <= max_window_tokens

\* the message kept last brought the sum exactly to the budget, the next
\* older one was left out for the budget and not for the window size
C27_Witness_TieKept ==
    /\ window_read.kind = "adaptive"
    /\ max_window_tokens >= 1
    /\ Len(window_read.messages) > min_window_size
    /\ Len(window_read.messages) < window_size
    /\ Len(window_read.messages) < window_read.original_count
    /\ SumEstimates(window_read.messages) = max_window_tokens
    /\ _estimate_tokens(window_read.messages[1]) >= 1


\* C28: what the fixed get_tuple returns is exactly the last
\* min(window_size, len(messages)) messages of the history it read, in the
\* order of that history, for every window size.
C28_FixedWindowLastN ==
    window_read.kind = "fixed" =>
        window_read.messages =
            LastOf(WindowInput,
                   IF window_size <= Len(WindowInput) THEN window_size
                   ELSE Len(WindowInput))


(***************************************************************************)
(* The compiled graph on one thread_id (graph.py line 73, routes.py line   *)
(* 246): an invocation restores its state from checkpointer.get_tuple,     *)
(* its nodes add messages to state["messages"] and every step is saved     *)
(* with checkpointer.put.                                                  *)
(***************************************************************************)
\* an invocation starts: get_tuple(config).  Lines 36 and 159 assign the
\* window to state["messages"] of the checkpoint the MemorySaver handed
\* out, and the invocation resumes from it.  The MemorySaver is taken to
\* hand out a copy, so that the assignment leaves its own record alone.
graph_load(adaptive) ==
    /\ graph.pc = "idle"
    /\ window_read.kind \in {"none", IF adaptive THEN "adaptive" ELSE "fixed"}
    /\ LET windowed_messages ==
               IF adaptive
               THEN AdaptiveWindow(checkpoint_messages, window_size,
                                   max_window_tokens, min_window_size)
               ELSE FixedWindow(checkpoint_messages, window_size)
       IN  /\ window_read' = [kind |-> IF adaptive THEN "adaptive" ELSE "fixed",
                              original_count |-> Len(checkpoint_messages),
                              messages |-> windowed_messages]
           /\ graph' = [pc |-> "running", messages |-> windowed_messages]
    /\ UNCHANGED <<cmVars, loadVars, now, window_size, max_window_tokens, min_window_size,
                   checkpoint_messages, recorded, chatVars, rateVars, offVars,
                   wfVars>>

\* a step of the invocation adds a message to state["messages"] (state.py
\* line 8: operator.add) and the state is saved: put delegates to the
\* MemorySaver (checkpointer.py lines 53-55)
graph_put(content_len) ==
    /\ graph.pc = "running"
    /\ recorded < MaxCheckpointMsgs
    /\ LET messages_after ==
               Append(graph.messages,
                      [id |-> recorded + 1, content_len |-> content_len])
       IN  /\ graph' = [graph EXCEPT !.messages = messages_after]
           /\ checkpoint_messages' = messages_after
    /\ recorded' = recorded + 1
    /\ UNCHANGED <<cmVars, loadVars, now, window_size, max_window_tokens, min_window_size,
                   window_read, chatVars, rateVars, offVars, wfVars>>

\* the invocation reaches END
graph_end ==
    /\ graph.pc = "running"
    /\ graph' = [pc |-> "idle", messages |-> <<>>]
    /\ UNCHANGED <<cmVars, loadVars, now, window_size, max_window_tokens, min_window_size,
                   checkpoint_messages, window_read, recorded, chatVars,
                   rateVars, offVars, wfVars>>

NextGraph ==
    \/ \E adaptive \in BOOLEAN : graph_load(adaptive)
    \/ \E content_len \in ContentLens : graph_put(content_len)
    \/ graph_end

InitSpecGraph ==
    /\ now = 0
    /\ InitChat
    /\ InitRate
    /\ InitOff({MaxChunkSize})
    /\ InitWin(1..MaxWindowSize, 0..MaxWindowTokens, 1..MaxMinWindow)
    /\ InitWf
    /\ InitCache

SpecGraph == InitSpecGraph /\ [][NextGraph]_vars

\* C29: in every state the history stored for the thread holds every
\* message written to the thread so far, whatever windowed reads (fixed or
\* adaptive) and turns came before.
C29_StoredHistoryComplete ==
    \A i \in 1..recorded : i \in Ids(checkpoint_messages)


(***************************************************************************)
(* InMemoryRateLimiter on one (key, endpoint), with a clock that runs past *)
(* the window: "/api/chat", scaled to limit 2 and a window of 2 ticks.     *)
(***************************************************************************)
OneKeyTick ==
    /\ Tick(MaxOneKeyTime)
    /\ UNCHANGED <<cmVars, loadVars, chatVars, rateVars, offVars, winVars, wfVars>>

NextOneKey ==
    \/ \E p \in Reqs : RqArrive(p, "user:a", "/api/chat")
    \/ \E p \in Reqs, increment \in BOOLEAN : check_rate_limit(p, increment)
    \/ OneKeyTick

SpecOneKey == InitSpecRate /\ [][NextOneKey]_vars

\* the admissions on (k, e) that a check at time t counts: those made less
\* than window_seconds before t
Counted(k, e, t) ==
    { i \in DOMAIN admitted[<<k, e>>] :
         admitted[<<k, e>>][i] > t - LimitFor(e)[2] }

\* C30: a check on (key, endpoint) is admitted iff fewer than limit of the
\* admissions on it were made within the window before the check, each
\* admission counting or not by its own age: so limit checks at one instant
\* are admitted, one more at that instant is rejected, and a check made
\* more than the window later is admitted.  A rejected check returns
\* retry_after = window + 1 - age of the oldest admission counted, which is
\* window + 1 when all of them were made at the instant of the check.
C30_SlidingScenario ==
    [][\A p \in Reqs :
          (rq[p].pc = "pending" /\ rq'[p].pc = "idle") =>
             LET k == rq[p].key
                 e == rq[p].endpoint
                 limit_count == LimitFor(e)[1]
                 window_seconds == LimitFor(e)[2]
                 counted == Counted(k, e, now)
             IN  /\ info'.allowed <=> Cardinality(counted) < limit_count
                 /\ ~info'.allowed =>
                       \E i \in counted :
                          /\ \A j \in counted :
                                admitted[<<k, e>>][i] <= admitted[<<k, e>>][j]
                          /\ info'.retry_after =
                                window_seconds + 1 - (now - admitted[<<k, e>>][i])
                 /\ (now > window_seconds
                       /\ \A i \in DOMAIN admitted[<<k, e>>] :
                             admitted[<<k, e>>][i] = 0)
                       => info'.allowed]_vars

\* admissions at times 0, 1 and 2 with limit 2 and window 2: the one made at
\* 0 had aged out when the third was admitted, the one made at 1 still
\* counts, and a further check at time 2 is rejected with retry_after 2
C30_Witness_AgedOutOneByOne ==
    /\ now = 2
    /\ admitted[<<"user:a", "/api/chat">>] = <<0, 1, 2>>
    /\ ~info.allowed
    /\ info.retry_after = 2
    /\ requests[<<"user:a", "/api/chat">>] = << <<1, 1>>, <<2, 1>> >>

(***************************************************************************)
(* Claims on the frame of check_rate_limit                                 *)
(***************************************************************************)
\* the window of (k, e): the list self.requests holds for it, empty when the
\* key has never been touched
WindowOf(reqs, k, e) ==
    IF <<k, e>> \in DOMAIN reqs THEN reqs[<<k, e>>] ELSE <<>>

\* C31: a Check that is allowed with increment=True leaves in the window of
\* its (key, operation) the unexpired entries followed by exactly one new
\* entry (current time, weight 1); a rejected Check and a Check with
\* increment=False leave exactly the unexpired entries; and the window of
\* every other (key, operation) is the same before and after.
C31_CheckFrame ==
    [][\A p \in Reqs, increment \in BOOLEAN :
          check_rate_limit(p, increment) =>
             LET k == rq[p].key
                 e == rq[p].endpoint
                 kept == SelectSeq(WindowOf(requests, k, e),
                                   LAMBDA x : x[1] > now - LimitFor(e)[2])
             IN  /\ WindowOf(requests', k, e) =
                       IF info'.allowed /\ increment
                       THEN kept \o << <<now, 1>> >>
                       ELSE kept
                 /\ \A k2 \in Keys, e2 \in Endpoints :
                        <<k2, e2>> # <<k, e>> =>
                           WindowOf(requests', k2, e2) = WindowOf(requests, k2, e2)
      ]_vars

\* a Check was rejected on a full window from which an expired entry has
\* been evicted
C31_Witness_RejectedAfterEviction ==
    \E k \in Keys, e \in Endpoints :
        /\ ~info.allowed
        /\ <<k, e>> \in DOMAIN requests
        /\ Len(requests[<<k, e>>]) = LimitFor(e)[1]
        /\ Len(admitted[<<k, e>>]) > LimitFor(e)[1]

(***************************************************************************)
(* get_user_stats, on the limiter with one request at a time               *)
(***************************************************************************)
\* lines 134-139: the window get_user_stats cleans an endpoint with
StatsWindow_M(endpoint) == 1

StatsWindow(endpoint) == LimitFor(endpoint)[2]

\* line 133: the endpoints self.requests[user_id] holds
EndpointsOf(reqs, user_id) == { x[2] : x \in { y \in DOMAIN reqs : y[1] = user_id } }

\* the loop of lines 133-146 over the endpoints in todo: the new
\* self.requests
RECURSIVE StatsLoop(_, _, _, _)
StatsLoop(reqs, user_id, todo, t) ==
    IF todo = {} THEN reqs
    ELSE LET endpoint == CHOOSE e \in todo : TRUE
         IN  StatsLoop(_cleanup_old_requests(reqs, user_id, endpoint,
                                             StatsWindow(endpoint), t),
                       user_id, todo \ {endpoint}, t)

\* get_user_stats(user_id) at time t: the new self.requests and the
\* returned dict ({} for a user_id that is not in self.requests)
GetUserStats(reqs, user_id, t) ==
    LET todo == EndpointsOf(reqs, user_id)
        after == StatsLoop(reqs, user_id, todo, t)
    IN  [requests |-> after,
         stats |-> [endpoint \in todo |->
                      [count |-> _get_request_count(after, user_id, endpoint),
                       limit |-> LimitFor(endpoint)[1],
                       window_seconds |-> LimitFor(endpoint)[2]]]]

\* get_user_stats(user_id)
get_user_stats(user_id) ==
    /\ LET r == GetUserStats(requests, user_id, now)
       IN  /\ requests' = r.requests
           /\ user_stats' = [called |-> TRUE, user_id |-> user_id, stats |-> r.stats]
    /\ info' = NoInfo
    /\ UNCHANGED <<cmVars, loadVars, now, rq, admitted, chatVars, offVars, winVars, wfVars>>

StatsTick ==
    /\ Tick(MaxStatsTime)
    /\ UNCHANGED <<cmVars, loadVars, chatVars, rateVars, offVars, winVars, wfVars>>

\* the requests are those of one user; get_user_stats is also called for
\* a key the limiter has never seen
NextStats ==
    \/ \E e \in Endpoints : RqArrive("r1", "user:a", e)
    \/ \E increment \in BOOLEAN : check_rate_limit("r1", increment)
    \/ \E k \in Keys : get_user_stats(k)
    \/ StatsTick

SpecStats == InitSpecRate /\ [][NextStats]_vars

\* C32: a get_user_stats(user_id) call leaves every later Check as it would
\* have been without the call: for every key, endpoint and increment flag
\* and every instant from now on, the Check returns the same info (allowed,
\* remaining, retry_after, reset) and leaves the same window behind.  The
\* call reports exactly the endpoints held for the user, each with the
\* count a Check at this instant would compute and its limit and window.
C32_StatsReadOnly ==
    [][\A user_id \in Keys :
          get_user_stats(user_id) =>
             /\ \A k \in Keys, e \in Endpoints, increment \in BOOLEAN :
                  \A t \in now..(now + LimitFor(e)[2] + 1) :
                    LET with == CheckResult(requests', k, e, increment, t)
                        without == CheckResult(requests, k, e, increment, t)
                    IN  /\ with.info = without.info
                        /\ WindowOf(with.requests, k, e)
                              = WindowOf(without.requests, k, e)
             /\ DOMAIN user_stats'.stats =
                   { e \in Endpoints : <<user_id, e>> \in DOMAIN requests }
             /\ \A e \in DOMAIN user_stats'.stats :
                    /\ user_stats'.stats[e].count = WindowCount(requests, user_id, e, now)
                    /\ user_stats'.stats[e].limit = LimitFor(e)[1]
                    /\ user_stats'.stats[e].window_seconds = LimitFor(e)[2]
      ]_vars

\* get_user_stats ran on a user holding an expired entry on one endpoint
\* and a live one on the other: it reported counts 0 and 1 and evicted the
\* expired entry
C32_Witness_StatsEvicted ==
    /\ user_stats.called
    /\ user_stats.user_id = "user:a"
    /\ DOMAIN user_stats.stats = Endpoints
    /\ user_stats.stats["/api/chat"].count = 0
    /\ user_stats.stats["/api/other"].count = 1
    /\ Len(admitted[<<"user:a", "/api/chat">>]) = 1
    /\ requests[<<"user:a", "/api/chat">>] = <<>>

(***************************************************************************)
(* Claims on check_token_limit                                             *)
(***************************************************************************)
\* /chat requests through the workflow, one after the other, with no flush
\* running
NextBudget ==
    \/ create_new_chat
    \/ \E message \in {"", "text"} : chat_request(message)
    \/ process_input
    \/ \E input_tokens \in 1..MaxTok, output_tokens \in 0..MaxTok,
          tool_calls \in BOOLEAN :
          /\ Len(messages) < MaxBudgetTurns
          /\ generate_response(input_tokens, output_tokens, tool_calls)
    \/ generate_response_error
    \/ tool_node
    \/ save_messages
    \/ chat_return

SpecBudget == InitSpecTurn /\ [][NextBudget]_vars

\* C33: for the cached conversation check_token_limit returns True iff the
\* ledger total is strictly below max_tokens_per_chat (a total equal to the
\* maximum gives False), and the step that calls it, process_input, takes
\* the limit branch iff it returned False and changes nothing of the
\* session manager.
C33_CheckBudget ==
    /\ [](cached =>
            (check_token_limit <=> cumulative_tokens.total < max_tokens_per_chat))
    /\ [][process_input =>
             /\ chatVars' = chatVars
             /\ wf'.limit_reached <=>
                   (cached /\ cumulative_tokens.total >= max_tokens_per_chat)
         ]_vars

\* the check has just failed on a ledger total equal to the maximum
C33_Witness_TotalEqualsMax ==
    /\ cached
    /\ cumulative_tokens.total = max_tokens_per_chat
    /\ wf.node = "generate_response"
    /\ wf.limit_reached

(***************************************************************************)
(* get_or_load_chat.  The cache test of line 118 and the assignment of     *)
(* line 161 are separated by two awaits (lines 135 and 148), so the call   *)
(* is three steps of the event loop.  A query is answered with what the    *)
(* table holds when the coroutine resumes.                                 *)
(***************************************************************************)
\* line 152: the total the loaded record gets
LoadedTotal(cumulative_input, cumulative_output, stored_total) ==
    cumulative_input + cumulative_output

\* lines 150-175: the record built from messages_result
LoadedRecord(messages_result, stored_total) ==
    LET cumulative_input == SumTokens(messages_result, {"user"})
        cumulative_output == SumTokens(messages_result, {"assistant"})
    IN  [messages |-> [i \in 1..Len(messages_result) |->
                         [id |-> i, role |-> messages_result[i].role,
                          tokens |-> messages_result[i].tokens]],
         cumulative_tokens |->
            [total |-> LoadedTotal(cumulative_input, cumulative_output,
                                   stored_total),
             input |-> cumulative_input,
             output |-> cumulative_output]]

\* lines 118-135: a cache hit returns the cached record; a miss suspends on
\* the query on table chats
get_or_load_chat(t) ==
    /\ pc[t] = "idle"
    /\ IF cached
       THEN /\ load_result' = [outcome |-> "hit",
                               total_tokens |-> cumulative_tokens.total,
                               messages |-> messages]
            /\ UNCHANGED <<pc, kind>>
       ELSE /\ pc' = [pc EXCEPT ![t] = "chat_query"]
            /\ kind' = [kind EXCEPT ![t] = "load"]
            /\ UNCHANGED load_result
    /\ UNCHANGED <<cmVars, now, cached, messages, unsaved_messages, cumulative_tokens,
                   last_save, metrics_saved, unsaved, alias, values, cum,
                   result, db_messages, db_total_tokens, chat_metrics_writes,
                   lastAppend, overlapFlush, overlapEnd, secondEnd, started,
                   autoWrites, chat_row, db_rows,
                   rateVars, offVars, winVars, wfVars>>

\* lines 135-148: the chats query returned; no row raises ValueError, a
\* row suspends the call on the messages query
ChatQueryOk(t) ==
    /\ pc[t] = "chat_query"
    /\ IF ~chat_row
       THEN /\ load_result' = [outcome |-> "not_found", total_tokens |-> 0,
                               messages |-> <<>>]
            /\ pc' = [pc EXCEPT ![t] = "idle"]
            /\ kind' = [kind EXCEPT ![t] = "none"]
       ELSE /\ pc' = [pc EXCEPT ![t] = "messages_query"]
            /\ UNCHANGED <<kind, load_result>>
    /\ UNCHANGED <<cmVars, now, cached, messages, unsaved_messages, cumulative_tokens,
                   last_save, metrics_saved, unsaved, alias, values, cum,
                   result, db_messages, db_total_tokens, chat_metrics_writes,
                   lastAppend, overlapFlush, overlapEnd, secondEnd, started,
                   autoWrites, chat_row, db_rows,
                   rateVars, offVars, winVars, wfVars>>

\* lines 148-205: the messages query returned; the record is built from its
\* rows and assigned to self.active_chats[chat_id], metrics_saved is reset,
\* and self.unsaved_messages is not touched
MessagesQueryOk(t) ==
    /\ pc[t] = "messages_query"
    /\ LET r == LoadedRecord(db_rows, db_total_tokens)
       IN  /\ cached' = TRUE
           /\ messages' = r.messages
           /\ cumulative_tokens' = r.cumulative_tokens
           /\ load_result' = [outcome |-> "loaded",
                              total_tokens |-> r.cumulative_tokens.total,
                              messages |-> r.messages]
    /\ last_save' = now
    /\ metrics_saved' = FALSE
    /\ pc' = [pc EXCEPT ![t] = "idle"]
    /\ kind' = [kind EXCEPT ![t] = "none"]
    /\ UNCHANGED <<cmVars, now, unsaved_messages, unsaved, alias, values, cum,
                   result, db_messages, db_total_tokens, chat_metrics_writes,
                   lastAppend, overlapFlush, overlapEnd, secondEnd, started,
                   autoWrites, chat_row, db_rows,
                   rateVars, offVars, winVars, wfVars>>

\* a run_query of get_or_load_chat raised: the exception leaves the call
LoadRaises(t) ==
    /\ pc[t] \in {"chat_query", "messages_query"}
    /\ load_result' = [outcome |-> "error", total_tokens |-> 0,
                       messages |-> <<>>]
    /\ pc' = [pc EXCEPT ![t] = "idle"]
    /\ kind' = [kind EXCEPT ![t] = "none"]
    /\ UNCHANGED <<cmVars, now, cached, messages, unsaved_messages, cumulative_tokens,
                   last_save, metrics_saved, unsaved, alias, values, cum,
                   result, db_messages, db_total_tokens, chat_metrics_writes,
                   lastAppend, overlapFlush, overlapEnd, secondEnd, started,
                   autoWrites, chat_row, db_rows,
                   rateVars, offVars, winVars, wfVars>>

\* the rows table messages can hold for the chat when the process starts:
\* user and assistant turns in the order call_llm appends them
RECURSIVE PersistedRows(_)
PersistedRows(n) ==
    IF n = 0 THEN { <<>> }
    ELSE PersistedRows(n - 1) \cup
         { Append(rows, [role |-> IF n % 2 = 1 THEN "user" ELSE "assistant",
                         tokens |-> tokens]) :
             rows \in { x \in PersistedRows(n - 1) : Len(x) = n - 1 },
             tokens \in 0..MaxTok }

\* a process that has just started: nothing is cached; the chat may have
\* its row and its messages in the store, and the stored chats.total_tokens
\* is whatever the last UPDATE left
InitSpecLoad ==
    /\ now = 0
    /\ cached = FALSE
    /\ messages = <<>>
    /\ unsaved_messages = <<>>
    /\ cumulative_tokens = [total |-> 0, input |-> 0, output |-> 0]
    /\ last_save = 0
    /\ metrics_saved = FALSE
    /\ pc = [t \in Tasks |-> "idle"]
    /\ kind = [t \in Tasks |-> "none"]
    /\ unsaved = [t \in Tasks |-> <<>>]
    /\ alias = [t \in Tasks |-> FALSE]
    /\ values = [t \in Tasks |-> <<>>]
    /\ cum = [t \in Tasks |-> 0]
    /\ result = Ret("none", 0)
    /\ chat_row \in BOOLEAN
    /\ db_rows \in (IF chat_row THEN PersistedRows(MaxPersisted) ELSE { <<>> })
    /\ db_messages = [i \in 1..Len(db_rows) |-> i]
    /\ db_total_tokens \in 0..(IF chat_row THEN MaxPersisted * MaxTok ELSE 0)
    /\ chat_metrics_writes = 0
    /\ lastAppend = "none"
    /\ overlapFlush = FALSE
    /\ overlapEnd = FALSE
    /\ secondEnd = FALSE
    /\ started = [t \in Tasks |-> -1]
    /\ autoWrites = <<>>
    /\ load_result = NoLoad
    /\ InitRate
    /\ InitOff({MaxChunkSize})
    /\ InitWinIdle
    /\ InitWf
    /\ InitCache

NextLoad ==
    \/ \E t \in Tasks : get_or_load_chat(t)
    \/ \E t \in Tasks : ChatQueryOk(t)
    \/ \E t \in Tasks : MessagesQueryOk(t)
    \/ \E t \in Tasks : LoadRaises(t)
    \/ \E tokens \in FlushTokens :
          Len(messages) < MaxLoadTurns /\ add_message_to_cache(NextRole, tokens)
    \* one flush at a time
    \/ \E t \in Tasks :
          (\A u \in Tasks : ~InFlushIO(u)) /\ save_chat_to_db(t, TRUE)
    \/ \E t \in Tasks : InsertOk(t)
    \/ \E t \in Tasks : InsertFail(t)
    \/ \E t \in Tasks : UpdateOk(t)
    \/ \E t \in Tasks : UpdateFail(t)

SpecLoad == InitSpecLoad /\ [][NextLoad]_vars

\* C34: a get_or_load_chat call that misses the cache and finds the chat
\* persisted caches a record whose log is the persisted turns in order,
\* whose input and output totals are the sums of the tokens of the
\* persisted user and assistant turns and whose total is their sum, with
\* an empty unsaved queue; a call that finds no row for the chat returns
\* not-found and caches nothing.
C34_LoadMaterializes ==
    [][\A t \in Tasks :
          /\ MessagesQueryOk(t) =>
                /\ cached'
                /\ Len(messages') = Len(db_rows)
                /\ \A i \in DOMAIN db_rows :
                      /\ messages'[i].role = db_rows[i].role
                      /\ messages'[i].tokens = db_rows[i].tokens
                /\ cumulative_tokens'.input = SumTokens(db_rows, {"user"})
                /\ cumulative_tokens'.output = SumTokens(db_rows, {"assistant"})
                /\ cumulative_tokens'.total = SumTokens(db_rows, Roles)
                /\ unsaved_messages' = <<>>
          /\ (ChatQueryOk(t) /\ ~chat_row) =>
                /\ load_result'.outcome = "not_found"
                /\ ~cached'
      ]_vars

\* C35: when an end_session call on the cached conversation returns (its
\* summary write has succeeded or has been logged as failed), the
\* conversation is no longer in the in-memory cache.
C35_EndedLeavesCache ==
    [][\A t \in Tasks :
          (cached /\ (MetricsOk(t) \/ MetricsFail(t))) => ~cached'
      ]_vars

\* C36: while the conversation is cached its record is never replaced: in
\* every step the log before is a prefix of the log after, and the total,
\* input and output token counts do not decrease.
C36_CachedRecordOnlyGrows ==
    [][(cached /\ cached') =>
          /\ Len(messages) <= Len(messages')
          /\ \A i \in DOMAIN messages : messages'[i] = messages[i]
          /\ cumulative_tokens'.total >= cumulative_tokens.total
          /\ cumulative_tokens'.input >= cumulative_tokens.input
          /\ cumulative_tokens'.output >= cumulative_tokens.output
      ]_vars

\* C38: when a request whose message has content ends with the final
\* answer of the LLM, the session cache has gained exactly two turns since
\* the request started: the user turn, once, followed by one assistant
\* turn, whatever the number of LLM invocations.
C38_OneUserTurnPerRequest ==
    (cached /\ wf.node = "end" /\ wf.user_msg_content # "" /\ wf.last = "ai") =>
        LET new == SubSeq(messages, wf.len0 + 1, Len(messages))
        IN  /\ Cardinality({ i \in DOMAIN new : new[i].role = "user" }) = 1
            /\ Len(new) = 2
            /\ new[1].role = "user"
            /\ new[2].role = "assistant"

\* C39: when end_session calls on the conversation have overlapped, at
\* most one summary upsert has been executed.
C39_OverlappingEndsWriteOnce == overlapEnd => chat_metrics_writes <= 1

(***************************************************************************)
(* Claims on retry_after                                                   *)
(***************************************************************************)
\* C37: in every state, a Check on any (key, operation) that is rejected
\* now with retry_after = r is followed, when no admission on that pair is
\* made in between, by a Check at now + r that is allowed, whether or not
\* either Check was asked to increment; and r is at least 1.
C37_RetryAfterSuffices ==
    \A k \in Keys, e \in Endpoints, increment \in BOOLEAN :
        LET first == CheckResult(requests, k, e, increment, now)
        IN  ~first.info.allowed =>
               /\ first.info.retry_after >= 1
               /\ \A again \in BOOLEAN :
                     CheckResult(first.requests, k, e, again,
                                 now + first.info.retry_after).info.allowed

\* a Check has just been rejected on a window whose oldest entry is older
\* than its newest one: retry_after is shorter than the window
C37_Witness_RejectedMidWindow ==
    \E k \in Keys, e \in Endpoints :
        /\ ~info.allowed
        /\ <<k, e>> \in DOMAIN requests
        /\ Len(requests[<<k, e>>]) = LimitFor(e)[1]
        /\ requests[<<k, e>>][1][1] < now
        /\ info.retry_after = RetryAfter(LimitFor(e)[2], now, requests[<<k, e>>][1][1])
        /\ info.retry_after <= LimitFor(e)[2]

(***************************************************************************)
(* CacheManager (src/agent/cache_manager.py).  Every method is synchronous:*)
(* one call is one step.  A session is its active_message_map and, for     *)
(* each logical message, the ids of its versions.                          *)
(***************************************************************************)
CacheChatIds == {"chat_1"}

\* logical message ids and version ids (uuid4 in the source)
MsgIds == 1..MaxMsgs

VersionIds == 1..MaxVersions

\* lines 137-143: the session create_chat_session caches
EmptySession == [active_message_map |-> [x \in {} |-> 0],
                 messages |-> [x \in {} |-> {}]]

\* the cache with chat_id bound to session
WithSession(c, chat_id, session) ==
    [x \in DOMAIN c \cup {chat_id} |-> IF x = chat_id THEN session ELSE c[x]]

\* the version ids in use in a session
VersionsOf(session) ==
    UNION { session.messages[m] : m \in DOMAIN session.messages }

\* lines 235-247: the version joins the logical message (created when
\* missing) and becomes its active version
AddVersion(session, logical_msg_id, version_id) ==
    [active_message_map |->
        [m \in DOMAIN session.active_message_map \cup {logical_msg_id} |->
            IF m = logical_msg_id THEN version_id
            ELSE session.active_message_map[m]],
     messages |->
        [m \in DOMAIN session.messages \cup {logical_msg_id} |->
            IF m = logical_msg_id
            THEN (IF m \in DOMAIN session.messages THEN session.messages[m]
                  ELSE {}) \cup {version_id}
            ELSE session.messages[m]]]

\* lines 268-283: the tests switch_message_version makes before it writes
SwitchKnown_M(c, chat_id, logical_msg_id, target_version_id) ==
    /\ chat_id \in DOMAIN c
    /\ logical_msg_id \in DOMAIN c[chat_id].messages

SwitchKnown(c, chat_id, logical_msg_id, target_version_id) ==
    /\ chat_id \in DOMAIN c
    /\ logical_msg_id \in DOMAIN c[chat_id].messages
    /\ target_version_id \in c[chat_id].messages[logical_msg_id]

\* create_chat_session(chat_id): a new empty session replaces what the
\* cache held for chat_id
create_chat_session(chat_id) ==
    /\ cache' = WithSession(cache, chat_id, EmptySession)
    /\ cm_return' = [op |-> "create_chat_session", value |-> chat_id]
    /\ UNCHANGED <<clockVars, chatVars, rateVars, offVars, winVars, wfVars,
                   loadVars>>

\* add_message_version(chat_id, logical_msg_id, ...): logical_msg_id = 0
\* stands for None (a new id is generated); version_id is the generated id
add_message_version(chat_id, logical_msg_id, version_id) ==
    LET session == IF chat_id \in DOMAIN cache THEN cache[chat_id]
                   ELSE EmptySession
        fresh == MsgIds \ DOMAIN session.messages
        msg_id == IF logical_msg_id = 0
                  THEN CHOOSE m \in fresh : \A n \in fresh : m <= n
                  ELSE logical_msg_id
    IN  /\ logical_msg_id = 0 => fresh # {}
        /\ version_id \notin VersionsOf(session)
        /\ cache' = WithSession(cache, chat_id,
                                 AddVersion(session, msg_id, version_id))
        /\ cm_return' = [op |-> "add_message_version",
                         value |-> <<msg_id, version_id>>]
        /\ UNCHANGED <<clockVars, chatVars, rateVars, offVars, winVars,
                       wfVars, loadVars>>

\* switch_message_version(chat_id, logical_msg_id, target_version_id)
switch_message_version(chat_id, logical_msg_id, target_version_id) ==
    /\ IF SwitchKnown(cache, chat_id, logical_msg_id, target_version_id)
       THEN /\ cache' = [cache EXCEPT
                            ![chat_id].active_message_map[logical_msg_id] =
                                target_version_id]
            /\ cm_return' = [op |-> "switch_message_version", value |-> TRUE]
       ELSE /\ cache' = cache
            /\ cm_return' = [op |-> "switch_message_version", value |-> FALSE]
    /\ UNCHANGED <<clockVars, chatVars, rateVars, offVars, winVars, wfVars,
                   loadVars>>

\* clear_chat(chat_id)
clear_chat(chat_id) ==
    /\ cache' = [x \in DOMAIN cache \ {chat_id} |-> cache[x]]
    /\ cm_return' = [op |-> "clear_chat", value |-> "none"]
    /\ UNCHANGED <<clockVars, chatVars, rateVars, offVars, winVars, wfVars,
                   loadVars>>

NextCache ==
    \/ \E chat_id \in CacheChatIds : create_chat_session(chat_id)
    \/ \E chat_id \in CacheChatIds, logical_msg_id \in MsgIds \cup {0},
          version_id \in VersionIds :
          add_message_version(chat_id, logical_msg_id, version_id)
    \/ \E chat_id \in CacheChatIds, logical_msg_id \in MsgIds,
          target_version_id \in VersionIds :
          switch_message_version(chat_id, logical_msg_id, target_version_id)
    \/ \E chat_id \in CacheChatIds : clear_chat(chat_id)

SpecCache == InitSpecChat /\ [][NextCache]_vars

\* C40: in every cached chat every entry of active_message_map names a
\* logical message of the chat and one of that message's versions; and a
\* switch_message_version call whose chat, message or version is unknown
\* returns False and leaves the cache as it was.
C40_ActiveMapValid ==
    /\ [](\A c \in DOMAIN cache :
            \A m \in DOMAIN cache[c].active_message_map :
               /\ m \in DOMAIN cache[c].messages
               /\ cache[c].active_message_map[m] \in cache[c].messages[m])
    /\ [][\A c \in CacheChatIds, m \in MsgIds, v \in VersionIds :
             ( /\ switch_message_version(c, m, v)
               /\ \/ c \notin DOMAIN cache
                  \/ m \notin DOMAIN cache[c].messages
                  \/ v \notin cache[c].messages[m] )
             => (cm_return'.value = FALSE /\ cache' = cache)
         ]_vars

\* a message has two versions, the older one is active again after a
\* switch, and the last switch_message_version call was refused
C40_Witness_SwitchedBackAndRefused ==
    \E c \in DOMAIN cache :
        \E m \in DOMAIN cache[c].messages :
            /\ Cardinality(cache[c].messages[m]) = 2
            /\ \E v \in cache[c].messages[m] :
                  cache[c].active_message_map[m] < v
            /\ cm_return = [op |-> "switch_message_version", value |-> FALSE]

=============================================================================
